---- MODULE Spec2Model ----
(***************************************************************************)
(* The summarization pipeline of the microservice: the /v1/summarize       *)
(* endpoint (app/api/v1/endpoints/summarize.py), the Redis-backed rate      *)
(* limiter and summary cache (app/services/redis_service.py), the OpenAI    *)
(* client with its retry decorator (app/services/llm_provider.py) and the   *)
(* extractive fallback (app/services/fallback.py).                          *)
(*                                                                          *)
(* Python strings are sequences of one-character strings.  Every `await`    *)
(* on the store or on the remote API is a point where another request may   *)
(* run, so each action below runs one task from one such point to the next. *)
(* `_ensure_connection` (a ping that touches no key) is folded into the     *)
(* store operation that follows it: the ping reads and writes nothing the   *)
(* other tasks see, so the fold loses no interleaving.                      *)
(***************************************************************************)
EXTENDS Integers, Sequences, FiniteSets, TLC

VARIABLES
    enable_redis,   \* settings.enable_redis: RedisService._client is None when FALSE
    store,          \* the Redis keyspace: key -> [val, ttl]
    pc,             \* per task: where its request stands
    req,            \* per task: the request being served (api_key and body)
    current_count,  \* per task: check_rate_limit's local current_count
    admit,          \* per task: how check_rate_limit ended for this request
    cached_result,  \* per task: what get_cached_summary returned
    result,         \* per task: the result dict of the primary or the fallback
    llm_error,      \* per task: the class of the exception generate_summary raised
    fallback_used,  \* per task: the endpoint's local fallback_used
    attempt,        \* per task: remote calls made so far by generate_summary
    set_calls,      \* per task: the (key, data) of each set_cached_summary call
    response,       \* per task: the HTTP outcome of its last finished request
    trace,          \* per task: the pipeline steps its request has run, in order
    admitted,       \* per credential: admit calls that returned True on the live counter
    window_calls,   \* per credential: admit calls completed on the live counter
    rolled,         \* per credential: the last counter expired at the ceiling
    calls,          \* one generate_summary invocation: how each remote call ended
                    \* (its failure, "none" for an accepted answer, and its text)
    gen,            \* one generate_summary invocation: where it stands
    fb_call,        \* the last call of the extractive fallback: its text, its lang,
                    \* the max_sentences it computed and what the TextRank step did
    fb_result,      \* the dict that call returned
    arrival,        \* per task: the HTTP request it last sent (bearer credential
                    \* and JSON body), as it was before the boundary handled it
    health,         \* the last GET /healthz: its credential, what the probe did
                    \* and the answer
    backoff         \* the retry decorator under a chosen MAX_RETRIES setting:
                    \* the failures it has waited after, and how long

vars == <<enable_redis, store, pc, req, current_count, admit, cached_result,
          result, llm_error, fallback_used, attempt, set_calls, response, trace,
          admitted, window_calls, rolled, calls, gen, fb_call, fb_result, arrival,
          health, backoff>>

\* the variables of the generate_summary invocation taken alone
genvars == <<calls, gen>>

\* the variables of the extractive fallback called on its own
fbvars == <<fb_call, fb_result>>

\* the variables of the parts that are exercised on their own
unitvars == <<genvars, fbvars, arrival, health, backoff>>

\* the variables of the request pipeline
pipevars == <<enable_redis, store, pc, req, current_count, admit, cached_result,
              result, llm_error, fallback_used, attempt, set_calls, response, trace,
              admitted, window_calls, rolled>>

----------------------------------------------------------------------------
(* Settings and literals of the code *)

\* Settings.rate_limit_requests, scaled down
rate_limit_requests == 2
\* Settings.cache_ttl_seconds, at the low end of its range
cache_ttl_seconds == 60
\* Settings.max_retries (default)
max_retries == 2
\* the TTL check_rate_limit gives a new counter
RateWindowSeconds == 60
\* the minimum stripped length generate_summary accepts
MinSummaryLen == 10
\* how much time one Tick lets pass
TickSeconds == 30

Tasks == {"t1", "t2"}

\* Redis' answer to TTL for a key without expiry
NoExpiry == -1

\* Python's None where a string is expected (no text of the model holds this character)
NoneStr == <<"<None>">>

Max(a, b) == IF a >= b THEN a ELSE b
Min(a, b) == IF a <= b THEN a ELSE b

----------------------------------------------------------------------------
(* Strings *)

IsSpace(c) == c = " "

RECURSIVE LStrip(_)
LStrip(s) == IF s # <<>> /\ IsSpace(Head(s)) THEN LStrip(Tail(s)) ELSE s

RECURSIVE RStrip(_)
RStrip(s) ==
    IF s # <<>> /\ IsSpace(s[Len(s)]) THEN RStrip(SubSeq(s, 1, Len(s) - 1)) ELSE s

\* str.strip()
Strip(s) == RStrip(LStrip(s))

\* str.count(c)
RECURSIVE Count(_, _)
Count(s, c) ==
    IF s = <<>> THEN 0 ELSE (IF Head(s) = c THEN 1 ELSE 0) + Count(Tail(s), c)

\* str.split(sep) for a one-character sep: always at least one piece
RECURSIVE SplitAcc(_, _, _)
SplitAcc(s, sep, cur) ==
    IF s = <<>> THEN <<cur>>
    ELSE IF Head(s) = sep THEN <<cur>> \o SplitAcc(Tail(s), sep, <<>>)
    ELSE SplitAcc(Tail(s), sep, Append(cur, Head(s)))

Split(s, sep) == SplitAcc(s, sep, <<>>)

\* sep.join(parts)
RECURSIVE Join(_, _)
Join(parts, sep) ==
    IF parts = <<>> THEN <<>>
    ELSE IF Len(parts) = 1 THEN parts[1]
    ELSE parts[1] \o sep \o Join(Tail(parts), sep)

\* parts[:n]
Take(parts, n) == SubSeq(parts, 1, Min(n, Len(parts)))

DigitChars == <<"0", "1", "2", "3", "4", "5", "6", "7", "8", "9">>

\* str(n) for n >= 0
RECURSIVE Digits(_)
Digits(n) ==
    IF n < 10 THEN <<DigitChars[n + 1]>>
    ELSE Digits(n \div 10) \o <<DigitChars[(n % 10) + 1]>>

DigitValue(c) == CHOOSE d \in 0..9 : DigitChars[d + 1] = c

IsDigits(s) == s # <<>> /\ \A i \in 1..Len(s) : \E d \in 1..10 : DigitChars[d] = s[i]

\* int(s) for a string of digits
RECURSIVE ParseInt(_)
ParseInt(s) ==
    IF Len(s) = 1 THEN DigitValue(s[1])
    ELSE 10 * ParseInt(SubSeq(s, 1, Len(s) - 1)) + DigitValue(s[Len(s)])

----------------------------------------------------------------------------
(* Requests *)

KeyA == <<"k", "A">>
KeyB == <<"k", "B">>

\* settings.allowed_api_keys
allowed_api_keys == {KeyA, KeyB}

LangEn == <<"e", "n">>
LangAuto == <<"a", "u", "t", "o">>
ToneNeutral == <<"n", "e", "u", "t", "r", "a", "l">>

\* "a. b." : two sentences
TextA == <<"a", ".", " ", "b", ".">>
\* "a" : no terminal mark
TextB == <<"a">>

ToneConcise == <<"c", "o", "n", "c", "i", "s", "e">>

\* "a|en|10" : a text that contains the separator of the hashed string
TextBar == <<"a", "|", "e", "n", "|", "1", "0">>

\* a valid request body with an allowed credential
ReqA == [api_key |-> KeyA, text |-> TextA, lang |-> LangEn, max_tokens |-> 100,
         tone |-> ToneNeutral]

\* the requests the clients of Spec send: the tasks race on one credential and
\* one cache key
Requests == {ReqA}

Credentials == allowed_api_keys

\* a validated request with a text that contains the separator
KeyBase == [api_key |-> KeyA, text |-> TextBar, lang |-> LangEn, max_tokens |-> 10,
            tone |-> ToneNeutral]

\* validated requests of one credential: KeyBase and the four requests that
\* differ from it in one field (text stripped and not empty, lang and tone
\* enumerated, max_tokens in 10..1000)
KeyRequests ==
    {KeyBase,
     [KeyBase EXCEPT !.text = TextB],
     [KeyBase EXCEPT !.lang = LangAuto],
     [KeyBase EXCEPT !.max_tokens = 100],
     [KeyBase EXCEPT !.tone = ToneConcise]}

----------------------------------------------------------------------------
(* Keys of the store *)

\* hashlib.sha256(...).hexdigest(), idealised as collision-free: the digest
\* stands for the data it was computed from
Sha256Hex(data) == <<"sha256">> \o data

\* RedisService.generate_cache_key: "summary:" + sha256(text|lang|max_tokens|tone)
\* cache_data = f"{text}|{lang}|{max_tokens}|{tone}"
cache_data(text, lang, max_tokens, tone) ==
    text \o <<"|">> \o lang \o <<"|">> \o Digits(max_tokens) \o <<"|">> \o tone

\* a key that leaves the tone out of the hashed string
KeyWithoutTone(text, lang, max_tokens, tone) ==
    <<"summary:", Sha256Hex(text \o <<"|">> \o lang \o <<"|">> \o Digits(max_tokens))>>

generate_cache_key(text, lang, max_tokens, tone) ==
    <<"summary:", Sha256Hex(cache_data(text, lang, max_tokens, tone))>>

\* a rate limiter with one counter for all credentials
SharedRateKey(api_key) == <<"rate_limit:", <<>>>>

\* a rate limiter that keeps its counters under the prefix of the cache
RateKeyInCacheSpace(api_key) == <<"summary:", api_key>>

\* rate_key = f"rate_limit:{api_key}"
rate_key(api_key) == <<"rate_limit:", api_key>>

CacheKeyOf(r) == generate_cache_key(r.text, r.lang, r.max_tokens, r.tone)

\* the characters of the two prefixes
SummaryPrefix == <<"s", "u", "m", "m", "a", "r", "y", ":">>
RateLimitPrefix == <<"r", "a", "t", "e", "_", "l", "i", "m", "i", "t", ":">>

\* the key as the string Redis receives: the prefix followed by the digest or
\* by the api_key
KeyString(k) ==
    (IF k[1] = "summary:" THEN SummaryPrefix ELSE RateLimitPrefix)
    \o (IF Len(k[2]) > 0 /\ Head(k[2]) = "sha256" THEN Tail(k[2]) ELSE k[2])

----------------------------------------------------------------------------
(* JSON values of the cache *)

\* Python's None where a dict is expected
NoneDict == [none |-> TRUE]

\* the order json.dumps writes the keys of cache_data in (insertion order)
JsonKeyOrder == <<"summary", "usage", "model", "fallback_used">>

\* a serializer that leaves out the last member
JsonDumpsShort(data) ==
    LET keep(k) == k \in DOMAIN data
        members == SelectSeq(JsonKeyOrder, keep)
    IN  [fmt |-> "json",
         members |-> [i \in 1..(Len(members) - 1) |-> <<members[i], data[members[i]]>>]]

\* json.dumps(data): the object's members, in order
JsonDumps(data) ==
    LET keep(k) == k \in DOMAIN data
        members == SelectSeq(JsonKeyOrder, keep)
    IN  [fmt |-> "json", members |-> [i \in 1..Len(members) |-> <<members[i], data[members[i]]>>]]

\* whether json.loads(s) raises JSONDecodeError
JsonDecodeError(s) == s.fmt # "json"

JsonValue(s, k) == s.members[CHOOSE i \in 1..Len(s.members) : s.members[i][1] = k][2]

\* json.loads(s) of an object: the dict of its members
JsonLoads(s) ==
    LET ks == {s.members[i][1] : i \in 1..Len(s.members)}
    IN  [k \in ks |-> JsonValue(s, k)]

\* Python truth of an Optional[dict]
Truthy(d) == d # NoneDict /\ DOMAIN d # {}

----------------------------------------------------------------------------
(* The extractive fallback: ExtractiveFallback *)

\* a sentence budget that halves the count of marks whatever the count is
SentenceCountHalved(text) ==
    Max(1, (Count(text, ".") + Count(text, "!") + Count(text, "?")) \div 2)

\* a sentence budget whose last band takes an eighth of the marks
SentenceCountEighth(text) ==
    LET sentences == Count(text, ".") + Count(text, "!") + Count(text, "?")
    IN  IF sentences <= 5 THEN Max(1, sentences \div 2)
        ELSE IF sentences <= 20 THEN Max(2, sentences \div 3)
        ELSE Max(3, sentences \div 8)

\* ExtractiveFallback._calculate_sentence_count
calculate_sentence_count(text) ==
    LET sentences == Count(text, ".") + Count(text, "!") + Count(text, "?")
    IN  IF sentences <= 5 THEN Max(1, sentences \div 2)
        ELSE IF sentences <= 20 THEN Max(2, sentences \div 3)
        ELSE Max(3, sentences \div 4)

ZeroUsage == [prompt_tokens |-> 0, completion_tokens |-> 0, total_tokens |-> 0]

\* The sentences sumy's parser finds in the text: the non-blank pieces between
\* full stops, stripped, each with its full stop.
DocumentSentences(text) ==
    LET pieces == Split(text, ".")
        stripped == [i \in 1..Len(pieces) |-> Strip(pieces[i])]
        nonblank(p) == p # <<>>
        kept == SelectSeq(stripped, nonblank)
    IN  [i \in 1..Len(kept) |-> kept[i] \o <<".">>]

\* What the TextRank step (parser, tokenizer, summarizer: library code) can do
\* with a text and a sentence budget: raise, or return up to max_sentences of
\* the document's sentences, in order, possibly none.
RankOutcomes(text, max_sentences) ==
    LET doc == DocumentSentences(text)
    IN  {[raised |-> TRUE, sentences |-> <<>>]}
        \cup {[raised |-> FALSE, sentences |-> SubSeq(doc, i, j)] :
                i \in 1..(Len(doc) + 1),
                j \in 0..Min(Len(doc), max_sentences)}

Uppercase == <<"A", "B", "C", "D", "E", "F", "G", "H", "I", "J", "K", "L", "M",
               "N", "O", "P", "Q", "R", "S", "T", "U", "V", "W", "X", "Y", "Z">>
Lowercase == <<"a", "b", "c", "d", "e", "f", "g", "h", "i", "j", "k", "l", "m",
               "n", "o", "p", "q", "r", "s", "t", "u", "v", "w", "x", "y", "z">>

\* str.lower()
Lower(s) ==
    [i \in 1..Len(s) |->
        IF \E j \in 1..Len(Uppercase) : Uppercase[j] = s[i]
        THEN Lowercase[CHOOSE j \in 1..Len(Uppercase) : Uppercase[j] = s[i]]
        ELSE s[i]]

\* lang_map of ExtractiveFallback._get_language_code
lang_map ==
    {<<<<"e", "s">>, "spanish">>, <<<<"e", "n">>, "english">>,
     <<<<"f", "r">>, "french">>, <<<<"d", "e">>, "german">>,
     <<<<"i", "t">>, "italian">>, <<<<"p", "t">>, "portuguese">>,
     <<<<"a", "u", "t", "o">>, "spanish">>}

\* ExtractiveFallback._get_language_code: lang_map.get(lang.lower(), 'spanish')
get_language_code(lang) ==
    LET hits == {e \in lang_map : e[1] = Lower(lang)}
    IN  IF hits = {} THEN "spanish" ELSE (CHOOSE e \in hits : TRUE)[2]

\* the languages sumy's Tokenizer has a sentence tokenizer for, among the
\* values of lang_map
TokenizerLanguages == {e[2] : e \in lang_map}

\* Parser, tokenizer and summarizer for one call (fallback.py 108-114):
\* Tokenizer(language) raises for a language it does not know; otherwise the
\* step does one of RankOutcomes
TextRank(language, text, max_sentences) ==
    IF language \in TokenizerLanguages
    THEN RankOutcomes(text, max_sentences)
    ELSE {[raised |-> TRUE, sentences |-> <<>>]}

\* a fallback whose last resort is missing: the exception of the TextRank step
\* leaves it
FallbackWithoutLastResort(text, lang, rank) ==
    LET max_sentences == calculate_sentence_count(text)
        joined == Join(rank.sentences, <<" ">>)
    IN  IF rank.raised
        THEN [summary |-> NoneStr, usage |-> ZeroUsage, model |-> "None",
              method |-> "None"]
        ELSE [summary |-> IF Strip(joined) = <<>>
                          THEN Join(Take(Split(text, "."), max_sentences), <<".", " ">>)
                                   \o <<".">>
                          ELSE joined,
              usage |-> ZeroUsage,
              model |-> "TextRank-extractive",
              method |-> "extractive"]

\* ExtractiveFallback.generate_summary(text, lang), given what the TextRank
\* step did (rank)
fallback_generate_summary(text, lang, rank) ==
    LET max_sentences == calculate_sentence_count(text)
        joined == Join(rank.sentences, <<" ">>)
        summary ==
            IF Strip(joined) = <<>>
            THEN Join(Take(Split(text, "."), max_sentences), <<".", " ">>) \o <<".">>
            ELSE joined
    IN  IF rank.raised
        THEN [summary |-> Join(Take(Split(text, "."), 3), <<".", " ">>) \o <<".">>,
              usage |-> ZeroUsage,
              model |-> "fallback-simple",
              method |-> "simple-extraction"]
        ELSE [summary |-> summary,
              usage |-> ZeroUsage,
              model |-> "TextRank-extractive",
              method |-> "extractive"]

----------------------------------------------------------------------------
(* The LLM client: OpenAIProvider.generate_summary *)

\* settings.openai_model
openai_model == "gpt-5-nano"

SomeUsage == [prompt_tokens |-> 50, completion_tokens |-> 20, total_tokens |-> 70]

\* "summary ok" : 10 characters
LongText == <<"s", "u", "m", "m", "a", "r", "y", " ", "o", "k">>
\* "other text" : 10 characters
OtherText == <<"o", "t", "h", "e", "r", " ", "t", "e", "x", "t">>
\* "ok"
ShortText == <<"o", "k">>
\* " summary  " : 10 characters, 7 once stripped
PaddedText == <<" ", "s", "u", "m", "m", "a", "r", "y", " ", " ">>

\* What one call of client.responses.create can do: answer with some
\* output_text (None, empty, short, padded, long), or raise.
RemoteOutcomes ==
    {[kind |-> "ok", output_text |-> x, usage |-> SomeUsage] :
        x \in {NoneStr, <<>>, ShortText, PaddedText, LongText}}
    \cup {[kind |-> k, output_text |-> NoneStr, usage |-> ZeroUsage] :
            k \in {"RateLimitError", "APIError", "APITimeoutError", "Exception"}}

\* What the installed libraries do at the two places where the code hands
\* them arguments they may not accept: APIError(message) built from a message
\* alone (llm_provider.py 150 and 193), and before_sleep_log(logger, "WARNING")
\* given the name of a level, which logging.Logger.log rejects
\* (llm_provider.py 83).  Each either works as the code expects or raises
\* TypeError.
Library == [api_error_constructs : BOOLEAN, sleep_log_returns : BOOLEAN]

\* `raise APIError(message)`: the class of what is raised
RaiseAPIError(lib) == IF lib.api_error_constructs THEN "APIError" ELSE "TypeError"

\* a validation that rejects the empty text only
RejectsEmptyOnly(summary) == summary = <<>>

\* `not summary or len(summary.strip()) < 10`
InvalidSummary(summary) == summary = <<>> \/ Len(Strip(summary)) < MinSummaryLen

\* a generate_summary that returns whatever text the remote call gave
generate_unchecked(o, lib) ==
    IF o.kind = "ok"
    THEN [ok |-> TRUE, raised |-> "none",
          value |-> [summary |-> IF o.output_text = NoneStr THEN <<>> ELSE o.output_text,
                     usage |-> o.usage, model |-> openai_model]]
    ELSE [ok |-> FALSE, raised |-> o.kind, value |-> NoneDict]

\* The body of generate_summary for one remote call: the dict it returns, or
\* the class of the exception it raises.  RateLimitError and APIError are
\* logged and raised again; APITimeoutError derives from APIError, so the
\* `except APIError` clause takes it and raises it again; an invalid answer and
\* any other exception end in `raise APIError(message)`.
generate_once(o, lib) ==
    LET summary == IF o.output_text = NoneStr THEN <<>> ELSE o.output_text
    IN  IF o.kind = "ok" /\ ~InvalidSummary(summary)
        THEN [ok |-> TRUE, raised |-> "none",
              value |-> [summary |-> summary, usage |-> o.usage, model |-> openai_model]]
        ELSE [ok |-> FALSE,
              raised |-> IF o.kind \in {"RateLimitError", "APIError", "APITimeoutError"}
                         THEN o.kind
                         ELSE RaiseAPIError(lib),
              value |-> NoneDict]

\* retry_if_exception_type((RateLimitError, APIError)): an isinstance test, so
\* the classes derived from APIError pass it too
retry_if_exception_type(cls) == cls \in {"RateLimitError", "APIError", "APITimeoutError"}

\* a decorator without a stop condition
NeverStops(n) == FALSE

\* stop_after_attempt(settings.max_retries), asked after attempt number n
stop_after_attempt(n) == n >= max_retries

\* The retry decorator after attempt number n ran with outcome o: the call
\* returns, raises (reraise=True: the attempt's own exception, or the
\* TypeError of the before_sleep hook), or sleeps before another attempt.
retry_decision(o, lib, n) ==
    LET g == generate_once(o, lib)
    IN  IF g.ok THEN [act |-> "return", raised |-> "none"]
        ELSE IF ~retry_if_exception_type(g.raised) \/ stop_after_attempt(n)
        THEN [act |-> "raise", raised |-> g.raised]
        ELSE IF ~lib.sleep_log_returns
        THEN [act |-> "raise", raised |-> "TypeError"]
        ELSE [act |-> "sleep", raised |-> g.raised]

----------------------------------------------------------------------------
(* The store: Redis commands on the keyspace *)

EmptyStore == [k \in {} |-> [val |-> <<>>, ttl |-> NoExpiry]]

\* GET key
RedisGet(s, k) == IF k \in DOMAIN s THEN s[k].val ELSE NoneStr

\* a SET that drops the expiry
SetWithoutExpiry(s, k, ttl, v) ==
    [x \in DOMAIN s \cup {k} |-> IF x = k THEN [val |-> v, ttl |-> NoExpiry] ELSE s[x]]

\* SETEX key ttl value
RedisSetex(s, k, ttl, v) ==
    [x \in DOMAIN s \cup {k} |-> IF x = k THEN [val |-> v, ttl |-> ttl] ELSE s[x]]

\* INCR key: a missing key counts from 0 and gets no expiry; the expiry of a
\* live key is kept
RedisIncr(s, k) ==
    IF k \in DOMAIN s
    THEN [s EXCEPT ![k].val = Digits(ParseInt(@) + 1)]
    ELSE RedisSetex(s, k, NoExpiry, Digits(1))

\* the keyspace after d seconds: expired keys are gone
RedisElapse(s, d) ==
    LET live == {k \in DOMAIN s : s[k].ttl = NoExpiry \/ s[k].ttl > d}
    IN  [k \in live |-> IF s[k].ttl = NoExpiry THEN s[k]
                        ELSE [s[k] EXCEPT !.ttl = @ - d]]

\* What a store operation, with the ping before it, can do: the ping fails,
\* the command fails, or both succeed.
StoreOutcomes == {"ok", "ping_failed", "command_failed"}

----------------------------------------------------------------------------
(* The state of a request *)

NoReq == [api_key |-> NoneStr, text |-> NoneStr, lang |-> NoneStr, max_tokens |-> 0,
          tone |-> NoneStr]

\* admit[t] tells how the check_rate_limit call of task t stands: its return
\* value ("pending" before it returns), the store failure that made it fail
\* open ("none" otherwise), whether its GET found no counter, and whether the
\* counter it created followed one that expired at the ceiling.  The endpoint
\* keeps none of this: the record is blank again once the request moves on.
AdmitBlank == [result |-> "none", fail |-> "none", saw_none |-> FALSE,
               after_ceiling |-> FALSE]


NoResponse ==
    [status |-> 0, summary |-> NoneStr, usage |-> ZeroUsage, model |-> "None",
     fallback_used |-> FALSE, cached |-> FALSE, latency_at |-> 0]

\* raise HTTPException(status_code=...), as the client sees it
HttpError(code) == [NoResponse EXCEPT !.status = code]

\* SummarizeResponse(...): the 200 answer; latency_at is the number of pipeline
\* steps that had run when latency_ms was taken
SummarizeResponse(summary, usage, model, latency_at, fb, cached) ==
    [status |-> 200, summary |-> summary, usage |-> usage, model |-> model,
     fallback_used |-> fb, cached |-> cached, latency_at |-> latency_at]

\* the ghost counters saturate one above the ceiling
CountCap == rate_limit_requests + 1

\* the retry decorator with the default setting, before any failure
NoBackoff == [max_retries |-> max_retries, slept |-> <<>>]

\* no GET /healthz was sent yet
NoHealth == [credential |-> NoneStr, probe |-> [raised |-> FALSE, value |-> FALSE],
             status_code |-> 0, status |-> "None", llm_provider |-> "None"]

\* no HTTP request was sent yet
NoArrival == [credential |-> NoneStr, text |-> NoneStr, lang |-> NoneStr,
              max_tokens |-> 0, tone |-> NoneStr, sent |-> FALSE]

\* the extractive fallback has not been called on its own
NoFallbackCall == [text |-> NoneStr, lang |-> NoneStr, max_sentences |-> 0,
                   rank |-> [raised |-> FALSE, sentences |-> <<>>]]
NoFallbackResult == [summary |-> NoneStr, usage |-> ZeroUsage, model |-> "None",
                     method |-> "None"]

\* a generate_summary invocation that has made no remote call yet
GenStart == [status |-> "running", raised |-> "none", value |-> NoneDict, sleeps |-> 0]

\* no request has been served yet
NoTraffic ==
    /\ pc = [t \in Tasks |-> "idle"]
    /\ req = [t \in Tasks |-> NoReq]
    /\ current_count = [t \in Tasks |-> NoneStr]
    /\ admit = [t \in Tasks |-> AdmitBlank]
    /\ cached_result = [t \in Tasks |-> NoneDict]
    /\ result = [t \in Tasks |-> NoneDict]
    /\ llm_error = [t \in Tasks |-> "none"]
    /\ fallback_used = [t \in Tasks |-> FALSE]
    /\ attempt = [t \in Tasks |-> 0]
    /\ set_calls = [t \in Tasks |-> <<>>]
    /\ response = [t \in Tasks |-> NoResponse]
    /\ trace = [t \in Tasks |-> <<>>]
    /\ admitted = [c \in Credentials |-> 0]
    /\ window_calls = [c \in Credentials |-> 0]
    /\ rolled = [c \in Credentials |-> FALSE]
    /\ calls = <<>>
    /\ gen = GenStart
    /\ fb_call = NoFallbackCall
    /\ fb_result = NoFallbackResult
    /\ arrival = [t \in Tasks |-> NoArrival]
    /\ health = NoHealth
    /\ backoff = NoBackoff

\* the service starts with the store switched on or off, and an empty keyspace
Init ==
    /\ enable_redis \in BOOLEAN
    /\ store = EmptyStore
    /\ NoTraffic

\* the service starts with the store switched on
InitAvailable ==
    /\ enable_redis = TRUE
    /\ store = EmptyStore
    /\ NoTraffic

\* Values another writer may have left under a summary key: text that is not
\* JSON, an object with a summary only, and a complete entry.
StoredValues ==
    {[fmt |-> "raw", members |-> <<>>],
     JsonDumps([summary |-> LongText]),
     JsonDumps([summary |-> LongText, usage |-> SomeUsage, model |-> openai_model,
                fallback_used |-> FALSE])}

\* the service starts against a keyspace that already holds a value under the
\* summary key of the request
InitStored ==
    /\ enable_redis = TRUE
    /\ \E v \in StoredValues :
          store = RedisSetex(EmptyStore, CacheKeyOf(ReqA), NoExpiry, v)
    /\ NoTraffic

----------------------------------------------------------------------------
(* check_rate_limit *)

\* a comparison that lets the counter pass the ceiling by one
OverLimitStrict(count) == count > rate_limit_requests

\* current_count >= settings.rate_limit_requests
OverLimit(count) == count >= rate_limit_requests

\* a limiter that rejects when it cannot count
FailClosed == "False"

\* what check_rate_limit returns when the store is off or a command raised
\* (redis_service.py 152-155 and 181-184)
FailOpen == "True"

\* a check_rate_limit that increments the counter it found at the ceiling
IncrementsAtCeiling(s, api_key, o) ==
    LET v == RedisGet(s, rate_key(api_key))
        returns(res, fail) ==
            [next |-> "return", result |-> res, fail |-> fail, saw_none |-> FALSE]
    IN  IF ~enable_redis THEN returns(FailOpen, "disabled")
        ELSE IF o = "ping_failed" THEN returns(FailOpen, "ping")
        ELSE IF o = "command_failed" THEN returns(FailOpen, "get")
        ELSE IF v = NoneStr
        THEN [next |-> "rl_setex", result |-> "pending", fail |-> "none", saw_none |-> TRUE]
        ELSE IF ~IsDigits(v) THEN returns(FailOpen, "value")
        ELSE [next |-> "rl_incr", result |-> "pending", fail |-> "none", saw_none |-> FALSE]

\* check_rate_limit up to its GET (redis_service.py 152-174): it returns there
\* (next = "return") or goes on to SETEX or INCR
RateLimitGet(s, api_key, o) ==
    LET v == RedisGet(s, rate_key(api_key))
        returns(res, fail) ==
            [next |-> "return", result |-> res, fail |-> fail, saw_none |-> FALSE]
    IN  IF ~enable_redis THEN returns(FailOpen, "disabled")
        ELSE IF o = "ping_failed" THEN returns(FailOpen, "ping")
        ELSE IF o = "command_failed" THEN returns(FailOpen, "get")
        ELSE IF v = NoneStr
        THEN [next |-> "rl_setex", result |-> "pending", fail |-> "none", saw_none |-> TRUE]
        ELSE IF ~IsDigits(v) THEN returns(FailOpen, "value")
        ELSE IF OverLimit(ParseInt(v)) THEN returns("False", "none")
        ELSE [next |-> "rl_incr", result |-> "pending", fail |-> "none", saw_none |-> FALSE]

\* the exceptions that reach the endpoint's outer handler
QuotaExceeded == [http |-> TRUE, status |-> 429]
Unexpected == [http |-> FALSE, status |-> 0]

\* an outer handler that answers 500 to every exception
AlwaysInternalError(e) == 500

\* the endpoint's outer `except Exception` (summarize.py 193-211): an
\* HTTPException goes out as it is, anything else as 500
OuterHandler(e) == IF e.http THEN e.status ELSE 500

\* the endpoint once check_rate_limit returned res (summarize.py 62-67)
AdmitReturn(t, res) ==
    IF res = "True"
    THEN /\ pc' = [pc EXCEPT ![t] = "cache_get"]
         /\ response' = [response EXCEPT ![t] = NoResponse]
    ELSE /\ pc' = [pc EXCEPT ![t] = "idle"]
         /\ response' = [response EXCEPT ![t] = HttpError(OuterHandler(QuotaExceeded))]

\* the ghost counters when a call on the live counter of credential c ends;
\* fresh: the call created the counter; ok: it returned True
CountCall(c, fresh, ok) ==
    /\ window_calls' = [window_calls EXCEPT ![c] = IF fresh THEN 1 ELSE Min(@ + 1, CountCap)]
    /\ admitted' = [admitted EXCEPT ![c] =
                        IF fresh THEN 1 ELSE IF ok THEN Min(@ + 1, CountCap) ELSE @]
    /\ rolled' = [rolled EXCEPT ![c] = IF fresh THEN FALSE ELSE @]

\* a request arrives at an idle task and runs to the first store command of
\* check_rate_limit (summarize.py 45-67, redis_service.py 152-174)
RequestBody(t, r, o) ==
    LET g == RateLimitGet(store, r.api_key, o)
    IN
    /\ pc[t] = "idle"
    /\ req' = [req EXCEPT ![t] = r]
    /\ trace' = [trace EXCEPT ![t] = <<"admit">>]
    /\ cached_result' = [cached_result EXCEPT ![t] = NoneDict]
    /\ result' = [result EXCEPT ![t] = NoneDict]
    /\ llm_error' = [llm_error EXCEPT ![t] = "none"]
    /\ fallback_used' = [fallback_used EXCEPT ![t] = FALSE]
    /\ attempt' = [attempt EXCEPT ![t] = 0]
    /\ set_calls' = [set_calls EXCEPT ![t] = <<>>]
    /\ admit' = [admit EXCEPT ![t] =
                    [result |-> g.result, fail |-> g.fail, saw_none |-> g.saw_none,
                     after_ceiling |-> FALSE]]
    /\ current_count' = [current_count EXCEPT ![t] =
                            IF g.next = "rl_incr"
                            THEN RedisGet(store, rate_key(r.api_key)) ELSE NoneStr]
    /\ IF g.next = "return"
       THEN AdmitReturn(t, g.result)
       ELSE /\ pc' = [pc EXCEPT ![t] = g.next]
            /\ response' = [response EXCEPT ![t] = NoResponse]
    /\ IF g.next = "return" /\ g.fail = "none"
       THEN CountCall(r.api_key, FALSE, g.result = "True")
       ELSE UNCHANGED <<admitted, window_calls, rolled>>
    /\ UNCHANGED <<enable_redis, store>>

\* summarize_text entered with the validated body and the verified api_key
Request(t, r, o) ==
    /\ RequestBody(t, r, o)
    /\ UNCHANGED unitvars

\* the rest of check_rate_limit after the store command cmd ("setex" or
\* "incr") was sent (redis_service.py 164-184)
RateWrite(t, cmd, o) ==
    LET c == req[t].api_key
        k == rate_key(c)
        fresh == k \notin DOMAIN store
    IN
    /\ IF o = "ok"
       THEN /\ store' = IF cmd = "setex"
                        THEN RedisSetex(store, k, RateWindowSeconds, Digits(1))
                        ELSE RedisIncr(store, k)
            /\ CountCall(c, fresh, TRUE)
            /\ admit' = [admit EXCEPT ![t] =
                            [result |-> "True", fail |-> "none", saw_none |-> @.saw_none,
                             after_ceiling |-> @.saw_none /\ rolled[c]]]
            /\ AdmitReturn(t, "True")
       ELSE /\ admit' = [admit EXCEPT ![t] =
                            [result |-> FailOpen, fail |-> cmd, saw_none |-> @.saw_none,
                             after_ceiling |-> FALSE]]
            /\ AdmitReturn(t, FailOpen)
            /\ UNCHANGED <<store, admitted, window_calls, rolled>>
    /\ current_count' = [current_count EXCEPT ![t] = NoneStr]
    /\ UNCHANGED <<enable_redis, req, cached_result, result, llm_error,
                   fallback_used, attempt, set_calls, trace>>
    /\ UNCHANGED unitvars

\* await self._client.setex(rate_key, 60, 1); return True
RlSetex(t, o) ==
    /\ pc[t] = "rl_setex"
    /\ RateWrite(t, "setex", o)

\* await self._client.incr(rate_key); return True
RlIncr(t, o) ==
    /\ pc[t] = "rl_incr"
    /\ RateWrite(t, "incr", o)

----------------------------------------------------------------------------
(* The summary cache *)

\* a lookup that never finds anything
AlwaysMiss(s, key, o) == NoneDict

\* RedisService.get_cached_summary(cache_key): the dict, or None on a miss, on
\* a store that is off or fails, and on a value that is not JSON
get_cached_summary(s, key, o) ==
    IF ~enable_redis \/ o # "ok" THEN NoneDict
    ELSE IF key \notin DOMAIN s THEN NoneDict
    ELSE IF JsonDecodeError(s[key].val) THEN NoneDict
    ELSE JsonLoads(s[key].val)

\* an endpoint that ignores what the lookup returned
NeverHit(d) == FALSE

\* `if cached_result:` in the endpoint
IsCacheHit(d) == Truthy(d)

\* a hit answer that always reports the fallback
HitMarkedFallback(d, latency_at) ==
    IF {"summary", "usage", "model"} \subseteq DOMAIN d
    THEN SummarizeResponse(d.summary, d.usage, d.model, latency_at, TRUE, TRUE)
    ELSE HttpError(OuterHandler(Unexpected))

\* the response the endpoint builds from a cached dict: a missing key raises
\* KeyError, which the outer handler turns into 500 (summarize.py 92-99, 207-211)
HitResponse(d, latency_at) ==
    IF {"summary", "usage", "model"} \subseteq DOMAIN d
    THEN SummarizeResponse(d.summary, d.usage, d.model, latency_at,
                           IF "fallback_used" \in DOMAIN d THEN d.fallback_used ELSE FALSE,
                           TRUE)
    ELSE HttpError(OuterHandler(Unexpected))

\* steps 2 and 3 of the endpoint: the key, the lookup, and the answer on a hit
\* (summarize.py 69-111)
CacheGet(t, o) ==
    LET key == CacheKeyOf(req[t])
        got == get_cached_summary(store, key, o)
        steps == Append(trace[t], "cache_get")
    IN
    /\ pc[t] = "cache_get"
    /\ trace' = [trace EXCEPT ![t] = steps]
    /\ cached_result' = [cached_result EXCEPT ![t] = got]
    /\ IF IsCacheHit(got)
       THEN /\ response' = [response EXCEPT ![t] = HitResponse(got, Len(steps))]
            /\ pc' = [pc EXCEPT ![t] = "idle"]
       ELSE /\ pc' = [pc EXCEPT ![t] = "llm"]
            /\ UNCHANGED response
    /\ admit' = [admit EXCEPT ![t] = AdmitBlank]
    /\ UNCHANGED <<enable_redis, store, req, current_count, result, llm_error,
                   fallback_used, attempt, set_calls, admitted, window_calls, rolled>>
    /\ UNCHANGED unitvars

\* a cache entry that is always marked as a fallback answer
CacheDataFlagged(res, fb) ==
    [summary |-> res.summary, usage |-> res.usage, model |-> res.model,
     fallback_used |-> TRUE]

\* the dict the endpoint caches (summarize.py 162-167)
CacheData(res, fb) ==
    [summary |-> res.summary, usage |-> res.usage, model |-> res.model,
     fallback_used |-> fb]

\* an endpoint that caches whatever it answers
AlwaysCache(fb) == TRUE

\* an endpoint that caches the fallback answers instead of the primary ones
CachesFallbackOnly(fb) == fb

\* `if not fallback_used:` : whether the endpoint calls set_cached_summary
ShouldCache(fb) == ~fb

\* a set_cached_summary that reports success whatever the store did
SetAlwaysTrue(s, key, data, o) == [returned |-> TRUE, store |-> s]

\* a set_cached_summary that stores the entry with plain SET, without expiry
SetCachedForever(s, key, data, o) ==
    IF ~enable_redis \/ o # "ok" THEN [returned |-> FALSE, store |-> s]
    ELSE [returned |-> TRUE,
          store |-> SetWithoutExpiry(s, key, cache_ttl_seconds, JsonDumps(data))]

\* RedisService.set_cached_summary(cache_key, data): what it returns and the
\* keyspace afterwards
set_cached_summary(s, key, data, o) ==
    IF ~enable_redis \/ o # "ok" THEN [returned |-> FALSE, store |-> s]
    ELSE [returned |-> TRUE,
          store |-> RedisSetex(s, key, cache_ttl_seconds, JsonDumps(data))]

\* step 5 of the endpoint and the answer (summarize.py 157-191): latency_ms was
\* taken before the cache is written
CacheSet(t, o) ==
    LET key == CacheKeyOf(req[t])
        data == CacheData(result[t], fallback_used[t])
    IN
    /\ pc[t] = "cache_set"
    /\ trace' = [trace EXCEPT ![t] = Append(@, "cache_set")]
    /\ set_calls' = [set_calls EXCEPT ![t] = Append(@, [key |-> key, data |-> data])]
    /\ store' = set_cached_summary(store, key, data, o).store
    /\ response' = [response EXCEPT ![t] =
                        SummarizeResponse(result[t].summary, result[t].usage,
                                          result[t].model, Len(trace[t]),
                                          fallback_used[t], FALSE)]
    /\ pc' = [pc EXCEPT ![t] = "idle"]
    /\ UNCHANGED <<enable_redis, req, current_count, admit, cached_result, result,
                   llm_error, fallback_used, attempt, admitted, window_calls, rolled>>
    /\ UNCHANGED unitvars

----------------------------------------------------------------------------
(* Primary generation and the fallback *)

\* the endpoint after `result` is known (summarize.py 157-191): on to the cache
\* write, or straight to the answer
AfterResult(t, res, fb, steps) ==
    /\ result' = [result EXCEPT ![t] = res]
    /\ fallback_used' = [fallback_used EXCEPT ![t] = fb]
    /\ trace' = [trace EXCEPT ![t] = steps]
    /\ IF ShouldCache(fb)
       THEN /\ pc' = [pc EXCEPT ![t] = "cache_set"]
            /\ UNCHANGED response
       ELSE /\ pc' = [pc EXCEPT ![t] = "idle"]
            /\ response' = [response EXCEPT ![t] =
                                SummarizeResponse(res.summary, res.usage, res.model,
                                                  Len(steps), fb, FALSE)]

\* the steps so far, with the generate call noted at its first remote call
WithGenerate(t) == IF attempt[t] = 0 THEN Append(trace[t], "generate") ELSE trace[t]

\* what attempt number n of a generate_summary call can lead to, over the
\* remote outcomes and the library behaviours
Decisions(n) == {retry_decision(o, lib, n) : o \in RemoteOutcomes, lib \in Library}

\* a remote call answers with outcome o and generate_summary returns
\* (summarize.py 114-129); a call that returns passes neither library call
LlmSuccess(t, o) ==
    /\ pc[t] = "llm"
    /\ "return" \in {retry_decision(o, lib, attempt[t] + 1).act : lib \in Library}
    /\ attempt' = [attempt EXCEPT ![t] = @ + 1]
    /\ AfterResult(t, (CHOOSE g \in {generate_once(o, lib) : lib \in Library} : g.ok).value,
                   FALSE, WithGenerate(t))
    /\ UNCHANGED <<enable_redis, store, req, current_count, admit, cached_result,
                   llm_error, set_calls, admitted, window_calls, rolled>>
    /\ UNCHANGED unitvars

\* a remote call fails, with some outcome and library behaviour for which the
\* retry decorator sleeps before the next call (llm_provider.py 79-85)
LlmRetry(t) ==
    /\ pc[t] = "llm"
    /\ "sleep" \in {d.act : d \in Decisions(attempt[t] + 1)}
    /\ attempt' = [attempt EXCEPT ![t] = @ + 1]
    /\ trace' = [trace EXCEPT ![t] = WithGenerate(t)]
    /\ UNCHANGED <<enable_redis, store, pc, req, current_count, admit, cached_result,
                   result, llm_error, fallback_used, set_calls, response, admitted,
                   window_calls, rolled>>
    /\ UNCHANGED unitvars

\* How a remote call failed, as the contract of generate_summary names it:
\* the class it raised, or InvalidResponse for an answer that is empty or
\* shorter than the minimum; "none" for an answer that is accepted
RemoteFailure(o) ==
    IF o.kind # "ok" THEN o.kind
    ELSE IF InvalidSummary(IF o.output_text = NoneStr THEN <<>> ELSE o.output_text)
    THEN "InvalidResponse"
    ELSE "none"

\* Settings.request_timeout_ms and Settings.llm_timeout_ms (defaults), and the
\* arguments of wait_exponential(multiplier=1, min=1, max=4) in milliseconds
request_timeout_ms == 10000
llm_timeout_ms == 8000
wait_multiplier_ms == 1000
wait_min_ms == 1000
wait_max_ms == 4000

\* a backoff that doubles without a cap
WaitUncapped(n) == Max(wait_min_ms, wait_multiplier_ms * 2 ^ (n - 1))

\* tenacity's wait_exponential after attempt number n:
\* max(min, min(multiplier * 2 ** (n - 1), max))
wait_exponential(n) == Max(wait_min_ms, Min(wait_multiplier_ms * 2 ^ (n - 1), wait_max_ms))

\* the largest MAX_RETRIES the settings accept (Field(ge=0, le=5))
max_retries_le == 5

\* the failures the retry predicate lets through to the backoff
RetriedClasses == {cls \in {"RateLimitError", "APIError", "APITimeoutError", "TypeError"} :
                     retry_if_exception_type(cls)}

\* the service is started with MAX_RETRIES = r
StartWith(r) ==
    /\ backoff.slept = <<>>
    /\ backoff' = [max_retries |-> r, slept |-> <<>>]
    /\ UNCHANGED <<pipevars, genvars, fbvars, arrival, health>>

\* attempt number n of an invocation failed with a retried class and
\* stop_after_attempt is not reached: the decorator waits wait_exponential(n)
\* before attempt n + 1
RetrySleep(cls) ==
    LET n == Len(backoff.slept) + 1
    IN
    /\ cls \in RetriedClasses
    /\ n < backoff.max_retries
    /\ backoff' = [backoff EXCEPT !.slept =
                      Append(@, [raised |-> cls, attempt |-> n, ms |-> wait_exponential(n)])]
    /\ UNCHANGED <<pipevars, genvars, fbvars, arrival, health>>

\* How long a remote call can take with AsyncOpenAI(timeout=llm_timeout_ms/1000):
\* a stuck call is given up at the timeout; a call that answers or fails
\* earlier takes less (the model takes no time at all, or 1 ms less)
CallMs(o) == IF o.kind = "APITimeoutError" THEN {llm_timeout_ms}
             ELSE {0, llm_timeout_ms - 1}

\* the time the remote calls cs took, and the time of the first n backoffs
RECURSIVE SumMs(_)
SumMs(cs) == IF cs = <<>> THEN 0 ELSE Head(cs).ms + SumMs(Tail(cs))
RECURSIVE SumWaits(_)
SumWaits(n) == IF n = 0 THEN 0 ELSE wait_exponential(n) + SumWaits(n - 1)

\* the time the generate_summary invocation has occupied so far
GenerateElapsedMs == SumMs(calls) + SumWaits(gen.sleeps)

\* One attempt of a generate_summary invocation taken alone: the remote call
\* ends with outcome o, the libraries behave as lib, and the retry decorator
\* returns the result, re-raises, or waits (wait_exponential) before the
\* next attempt (llm_provider.py 78-193)
GenAttempt(o, lib) ==
    LET d == retry_decision(o, lib, Len(calls) + 1)
    IN
    /\ gen.status = "running"
    /\ \E ms \in CallMs(o) :
          calls' = Append(calls, [failure |-> RemoteFailure(o),
                                  output_text |-> o.output_text, ms |-> ms])
    /\ gen' = CASE d.act = "return" ->
                     [gen EXCEPT !.status = "returned",
                                 !.value = generate_once(o, lib).value]
               [] d.act = "raise" ->
                     [gen EXCEPT !.status = "raised", !.raised = d.raised]
               [] OTHER -> [gen EXCEPT !.sleeps = @ + 1]
    /\ UNCHANGED <<pipevars, fbvars, arrival, health, backoff>>

\* the exception classes generate_summary can end with
ErrorClasses == {"RateLimitError", "APIError", "APITimeoutError", "TypeError"}

\* an endpoint that catches only the classes of the OpenAI client
CatchesClientErrors(cls) == cls \in {"RateLimitError", "APIError", "APITimeoutError"}

\* `except Exception` around generate_summary (summarize.py 131): every class
\* the client raises is an Exception
EndpointCatches(cls) == TRUE

\* generate_summary raises cls, for some remote outcome and library behaviour;
\* the endpoint runs the fallback, which has no await (summarize.py 131-155)
LlmFallback(t, cls, rank) ==
    /\ pc[t] = "llm"
    /\ [act |-> "raise", raised |-> cls] \in Decisions(attempt[t] + 1)
    /\ attempt' = [attempt EXCEPT ![t] = @ + 1]
    /\ llm_error' = [llm_error EXCEPT ![t] = cls]
    /\ IF EndpointCatches(cls)
       THEN AfterResult(t, fallback_generate_summary(req[t].text, req[t].lang, rank),
                        TRUE, Append(WithGenerate(t), "fallback"))
       ELSE /\ pc' = [pc EXCEPT ![t] = "idle"]
            /\ response' = [response EXCEPT ![t] = HttpError(OuterHandler(Unexpected))]
            /\ trace' = [trace EXCEPT ![t] = WithGenerate(t)]
            /\ UNCHANGED <<result, fallback_used>>
    /\ UNCHANGED <<enable_redis, store, req, current_count, admit, cached_result,
                   set_calls, admitted, window_calls, rolled>>
    /\ UNCHANGED unitvars

----------------------------------------------------------------------------
(* The boundary: bearer credential and request body *)

\* Field(max_length=50000) of SummarizeRequest.text, scaled down to a length
\* that texts of the model can exceed
max_length == 8

\* a credential check that lets every bearer credential through
AcceptAnyKey(credential) == [ok |-> TRUE, status |-> 200]

\* verify_api_key: 401 unless the credential is in settings.allowed_api_keys
verify_api_key(credential) ==
    IF credential \notin allowed_api_keys
    THEN [ok |-> FALSE, status |-> 401]
    ELSE [ok |-> TRUE, status |-> 200]

\* HTTPBearer without an Authorization header: the framework answers "Not
\* authenticated" with 403, or with 401 in its later releases
NotAuthenticated == {401, 403}

\* the statuses the security dependencies can end with for a credential
\* (NoneStr: no header)
SecurityOutcomes(credential) ==
    IF credential = NoneStr
    THEN {[ok |-> FALSE, status |-> c] : c \in NotAuthenticated}
    ELSE {verify_api_key(credential)}

supported_langs == {<<"a", "u", "t", "o">>, <<"e", "s">>, <<"e", "n">>, <<"f", "r">>,
                    <<"d", "e">>, <<"i", "t">>, <<"p", "t">>}
supported_tones == {<<"n", "e", "u", "t", "r", "a", "l">>,
                    <<"c", "o", "n", "c", "i", "s", "e">>,
                    <<"b", "u", "l", "l", "e", "t">>}

\* text: required, a str of at most max_length characters, then validate_text
\* (not empty once stripped; the stripped text is kept)
validate_text(v) ==
    IF v = NoneStr \/ Len(v) > max_length \/ v = <<>> \/ Strip(v) = <<>>
    THEN [ok |-> FALSE, value |-> NoneStr]
    ELSE [ok |-> TRUE, value |-> Strip(v)]

\* lang: default "auto" when absent, else validate_lang (v.lower() must be
\* supported; the lower-case tag is kept)
validate_lang(v) ==
    IF v = NoneStr THEN [ok |-> TRUE, value |-> LangAuto]
    ELSE IF Lower(v) \notin supported_langs THEN [ok |-> FALSE, value |-> NoneStr]
    ELSE [ok |-> TRUE, value |-> Lower(v)]

\* tone: default "neutral" when absent, else validate_tone
validate_tone(v) ==
    IF v = NoneStr THEN [ok |-> TRUE, value |-> ToneNeutral]
    ELSE IF Lower(v) \notin supported_tones THEN [ok |-> FALSE, value |-> NoneStr]
    ELSE [ok |-> TRUE, value |-> Lower(v)]

\* a body check without the range of max_tokens
BodyWithoutTokenRange(raw) ==
    LET x == validate_text(raw.text)
        l == validate_lang(raw.lang)
        n == validate_tone(raw.tone)
    IN  IF x.ok /\ l.ok /\ n.ok
        THEN [ok |-> TRUE,
              value |-> [api_key |-> raw.credential, text |-> x.value, lang |-> l.value,
                         max_tokens |-> raw.max_tokens, tone |-> n.value]]
        ELSE [ok |-> FALSE, value |-> NoReq]

\* SummarizeRequest built from the JSON body; max_tokens: ge=10, le=1000.  The
\* value is what summarize_text receives, with the verified api_key.
SummarizeRequest(raw) ==
    LET x == validate_text(raw.text)
        l == validate_lang(raw.lang)
        n == validate_tone(raw.tone)
    IN  IF x.ok /\ l.ok /\ n.ok /\ raw.max_tokens >= 10 /\ raw.max_tokens <= 1000
        THEN [ok |-> TRUE,
              value |-> [api_key |-> raw.credential, text |-> x.value, lang |-> l.value,
                         max_tokens |-> raw.max_tokens, tone |-> n.value]]
        ELSE [ok |-> FALSE, value |-> NoReq]

\* the boundary answers an HTTP request itself: summarize_text is not called
Reject(t, code) ==
    /\ pc[t] = "idle"
    /\ response' = [response EXCEPT ![t] = HttpError(code)]
    /\ UNCHANGED <<enable_redis, store, pc, req, current_count, admit, cached_result,
                   result, llm_error, fallback_used, attempt, set_calls, trace,
                   admitted, window_calls, rolled>>

\* POST /v1/summarize with bearer credential and JSON body raw: the security
\* dependencies run first and end as sec; then the body is validated (422 from
\* the framework when it is not valid); then summarize_text runs
Arrive(t, raw, sec) ==
    LET body == SummarizeRequest(raw)
    IN
    /\ arrival' = [arrival EXCEPT ![t] = [raw EXCEPT !.sent = TRUE]]
    /\ IF ~sec.ok THEN Reject(t, sec.status)
       ELSE IF ~body.ok THEN Reject(t, 422)
       ELSE RequestBody(t, body.value, "ok")
    /\ UNCHANGED <<genvars, fbvars, health, backoff>>

----------------------------------------------------------------------------
(* The health check *)

\* OpenAIProvider.test_connection: True when client.responses.create returns,
\* whatever it returns; False when it raises
test_connection(o) == o.kind = "ok"

\* What `await openai_provider.test_connection()` can do in health_check:
\* return what the probe returns for some remote outcome, or raise (the probe
\* replaced by one that raises, as the tests do)
ProbeOutcomes ==
    {[raised |-> FALSE, value |-> test_connection(o)] : o \in RemoteOutcomes}
    \cup {[raised |-> TRUE, value |-> FALSE]}

\* a health check that does not look at the probe
HealthWithoutProbe(p) == [status_code |-> 200, status |-> "ok", llm_provider |-> "ok"]

\* health_check, given what the probe did: the HealthResponse, sent with 200
health_check(p) ==
    LET openai_status == IF p.raised \/ ~p.value THEN "error" ELSE "ok"
    IN  [status_code |-> 200,
         status |-> IF openai_status = "ok" THEN "ok" ELSE "degraded",
         llm_provider |-> openai_status]

\* GET /v1/healthz with bearer credential c (NoneStr: none); the route has no
\* dependency and health_check uses no Redis command
HealthCheck(c, p) ==
    LET h == health_check(p)
    IN
    /\ health' = [credential |-> c, probe |-> p, status_code |-> h.status_code,
                  status |-> h.status, llm_provider |-> h.llm_provider]
    /\ UNCHANGED <<pipevars, genvars, fbvars, arrival, backoff>>

----------------------------------------------------------------------------
(* Time *)

\* TickSeconds pass: keys whose expiry is reached disappear
Tick ==
    LET after == RedisElapse(store, TickSeconds)
        gone(c) == rate_key(c) \in DOMAIN store /\ rate_key(c) \notin DOMAIN after
    IN
    /\ \E k \in DOMAIN store : store[k].ttl # NoExpiry
    /\ store' = after
    /\ window_calls' = [c \in Credentials |-> IF gone(c) THEN 0 ELSE window_calls[c]]
    /\ admitted' = [c \in Credentials |-> IF gone(c) THEN 0 ELSE admitted[c]]
    /\ rolled' = [c \in Credentials |->
                    IF gone(c) THEN OverLimit(ParseInt(store[rate_key(c)].val))
                    ELSE rolled[c]]
    /\ UNCHANGED <<enable_redis, pc, req, current_count, admit, cached_result, result,
                   llm_error, fallback_used, attempt, set_calls, response, trace>>
    /\ UNCHANGED unitvars

----------------------------------------------------------------------------
(* Specifications *)

Next ==
    \/ \E t \in Tasks, r \in Requests, o \in StoreOutcomes : Request(t, r, o)
    \/ \E t \in Tasks, o \in {"ok", "command_failed"} : RlSetex(t, o)
    \/ \E t \in Tasks, o \in {"ok", "command_failed"} : RlIncr(t, o)
    \/ \E t \in Tasks, o \in StoreOutcomes : CacheGet(t, o)
    \/ \E t \in Tasks, o \in RemoteOutcomes : LlmSuccess(t, o)
    \/ \E t \in Tasks : LlmRetry(t)
    \/ \E t \in Tasks, cls \in ErrorClasses :
         \E rank \in TextRank(get_language_code(req[t].lang), req[t].text,
                               calculate_sentence_count(req[t].text)) :
            LlmFallback(t, cls, rank)
    \/ \E t \in Tasks, o \in StoreOutcomes : CacheSet(t, o)
    \/ Tick

\* concurrent requests, a store that may fail at any command
Spec == Init /\ [][Next]_vars

\* the next step of the request of task t: the store command or the remote
\* call it awaits returns or fails
TaskStep(t) ==
    \/ \E o \in {"ok", "command_failed"} : RlSetex(t, o)
    \/ \E o \in {"ok", "command_failed"} : RlIncr(t, o)
    \/ \E o \in StoreOutcomes : CacheGet(t, o)
    \/ \E o \in RemoteOutcomes : LlmSuccess(t, o)
    \/ LlmRetry(t)
    \/ /\ pc[t] = "llm"
       /\ \E cls \in ErrorClasses :
            \E rank \in TextRank(get_language_code(req[t].lang), req[t].text,
                                  calculate_sentence_count(req[t].text)) :
               LlmFallback(t, cls, rank)
    \/ \E o \in StoreOutcomes : CacheSet(t, o)

\* the client whose requests are followed to their end
LiveTasks == {"t1"}

\* the requests of one client, one after another, with every outcome of the
\* store and of the remote API, while keys expire
NextLive ==
    \/ \E t \in LiveTasks, r \in Requests, o \in StoreOutcomes : Request(t, r, o)
    \/ \E t \in LiveTasks : TaskStep(t)
    \/ Tick

\* every awaited store command and remote call eventually returns or fails
SpecLive == Init /\ [][NextLive]_vars /\ \A t \in LiveTasks : WF_vars(TaskStep(t))

\* the same steps with a store that answers every command
NextAvailable ==
    \/ \E t \in Tasks, r \in Requests : Request(t, r, "ok")
    \/ \E t \in Tasks : RlSetex(t, "ok")
    \/ \E t \in Tasks : RlIncr(t, "ok")
    \/ \E t \in Tasks : CacheGet(t, "ok")
    \/ \E t \in Tasks, o \in RemoteOutcomes : LlmSuccess(t, o)
    \/ \E t \in Tasks : LlmRetry(t)
    \/ \E t \in Tasks, cls \in ErrorClasses :
         \E rank \in TextRank(get_language_code(req[t].lang), req[t].text,
                               calculate_sentence_count(req[t].text)) :
            LlmFallback(t, cls, rank)
    \/ \E t \in Tasks : CacheSet(t, "ok")
    \/ Tick

\* concurrent requests, an available store
SpecAvailable == InitAvailable /\ [][NextAvailable]_vars

\* no check_rate_limit call is between its GET and its write
NoAdmitInFlight == \A u \in Tasks : pc[u] \notin {"rl_setex", "rl_incr"}

\* a request arrives while no other check_rate_limit call is in flight
SeqRequest(t, r) ==
    /\ NoAdmitInFlight
    /\ Request(t, r, "ok")

NextSeq ==
    \/ \E t \in Tasks, r \in Requests : SeqRequest(t, r)
    \/ \E t \in Tasks : RlSetex(t, "ok")
    \/ \E t \in Tasks : RlIncr(t, "ok")
    \/ \E t \in Tasks : CacheGet(t, "ok")
    \/ \E t \in Tasks, o \in RemoteOutcomes : LlmSuccess(t, o)
    \/ \E t \in Tasks : LlmRetry(t)
    \/ \E t \in Tasks, cls \in ErrorClasses :
         \E rank \in TextRank(get_language_code(req[t].lang), req[t].text,
                               calculate_sentence_count(req[t].text)) :
            LlmFallback(t, cls, rank)
    \/ \E t \in Tasks : CacheSet(t, "ok")
    \/ Tick

\* the cache cannot be used: the store is switched off, or the command fails
CacheDown(o) == ~enable_redis \/ o # "ok"

\* the steps with a store that fails every cache command; the rate limiter is
\* served or not
NextCacheDown ==
    \/ \E t \in Tasks, r \in Requests, o \in StoreOutcomes : Request(t, r, o)
    \/ \E t \in Tasks, o \in {"ok", "command_failed"} : RlSetex(t, o)
    \/ \E t \in Tasks, o \in {"ok", "command_failed"} : RlIncr(t, o)
    \/ \E t \in Tasks, o \in StoreOutcomes : CacheDown(o) /\ CacheGet(t, o)
    \/ \E t \in Tasks, o \in RemoteOutcomes : LlmSuccess(t, o)
    \/ \E t \in Tasks : LlmRetry(t)
    \/ \E t \in Tasks, cls \in ErrorClasses :
         \E rank \in TextRank(get_language_code(req[t].lang), req[t].text,
                               calculate_sentence_count(req[t].text)) :
            LlmFallback(t, cls, rank)
    \/ \E t \in Tasks, o \in StoreOutcomes : CacheDown(o) /\ CacheSet(t, o)
    \/ Tick

\* concurrent requests, a cache that is switched off or unreachable
SpecCacheDown == Init /\ [][NextCacheDown]_vars

\* What a remote call can answer when the API is available: the model is not
\* deterministic, two calls with the same input may answer differently.
AvailableOutcomes ==
    {[kind |-> "ok", output_text |-> x, usage |-> SomeUsage] : x \in {LongText, OtherText}}

\* the steps with a store and a remote API that always answer, while no key
\* expires
NextPrimary ==
    \/ \E t \in Tasks, r \in Requests : Request(t, r, "ok")
    \/ \E t \in Tasks : RlSetex(t, "ok")
    \/ \E t \in Tasks : RlIncr(t, "ok")
    \/ \E t \in Tasks : CacheGet(t, "ok")
    \/ \E t \in Tasks, o \in AvailableOutcomes : LlmSuccess(t, o)
    \/ \E t \in Tasks : CacheSet(t, "ok")

\* concurrent requests inside one TTL, store and primary generator available
SpecPrimary == InitAvailable /\ [][NextPrimary]_vars

\* the steps of NextPrimary for requests that differ in text, lang, max_tokens
\* and tone
NextKeys ==
    \/ \E t \in Tasks, r \in KeyRequests : Request(t, r, "ok")
    \/ \E t \in Tasks : RlSetex(t, "ok")
    \/ \E t \in Tasks : RlIncr(t, "ok")
    \/ \E t \in Tasks : CacheGet(t, "ok")
    \/ \E t \in Tasks : LlmSuccess(t, [kind |-> "ok", output_text |-> LongText,
                                        usage |-> SomeUsage])
    \/ \E t \in Tasks : CacheSet(t, "ok")

\* concurrent requests for different keys, store and primary generator available
SpecKeys == InitAvailable /\ [][NextKeys]_vars

\* the most sentence-terminal marks in a text
MaxMarks == 24

\* a text of n full stops
Dots(n) == [i \in 1..n |-> "."]

\* texts with 0..MaxMarks sentence-terminal marks and no words, and "?!.?!.":
\* their only sentences are blank
MarkTexts ==
    {Dots(n) : n \in 0..MaxMarks} \cup {<<"?", "!", ".", "?", "!", ".">>}

KeyC == <<"k", "C">>

\* " a. b. " : TextA between blanks
TextAPadded == <<" ", "a", ".", " ", "b", ".", " ">>
\* "  a. b.  " : more than max_length characters, TextA once stripped
TextAWide == <<" ", " ", "a", ".", " ", "b", ".", " ", " ">>
\* "a. b. c. d." : more than max_length characters
TextLong == <<"a", ".", " ", "b", ".", " ", "c", ".", " ", "d", ".">>

\* an HTTP request that passes the boundary
RawA == [credential |-> KeyA, text |-> TextA, lang |-> LangEn, max_tokens |-> 100,
         tone |-> ToneNeutral, sent |-> FALSE]

\* The HTTP requests clients send: RawA and requests that differ from it in
\* one part: the credential (unknown, or no header), the text (padded, absent,
\* empty, blank, too long), the lang (absent, capitals, unknown), the tone
\* (capitals, unknown) and max_tokens (10, 1000, 9, 1001); and one with an
\* unknown credential and a body that is not valid either.
RawRequests ==
    {RawA,
     [RawA EXCEPT !.credential = KeyC],
     [RawA EXCEPT !.credential = NoneStr],
     [RawA EXCEPT !.credential = KeyC, !.text = <<>>],
     [RawA EXCEPT !.text = TextAPadded],
     [RawA EXCEPT !.text = NoneStr],
     [RawA EXCEPT !.text = <<>>],
     [RawA EXCEPT !.text = <<" ", " ">>],
     [RawA EXCEPT !.text = TextAWide],
     [RawA EXCEPT !.text = TextLong],
     [RawA EXCEPT !.lang = NoneStr],
     [RawA EXCEPT !.lang = <<"E", "N">>],
     [RawA EXCEPT !.lang = <<"x", "x">>],
     [RawA EXCEPT !.tone = <<"N", "e", "u", "t", "r", "a", "l">>],
     [RawA EXCEPT !.tone = <<"l", "o", "u", "d">>],
     [RawA EXCEPT !.max_tokens = 10],
     [RawA EXCEPT !.max_tokens = 1000],
     [RawA EXCEPT !.max_tokens = 9],
     [RawA EXCEPT !.max_tokens = 1001]}

\* the steps of NextAvailable, with a primary generator that may answer two
\* calls for the same input differently
NextRace ==
    \/ NextAvailable
    \/ \E t \in Tasks : LlmSuccess(t, [kind |-> "ok", output_text |-> OtherText,
                                        usage |-> SomeUsage])

\* concurrent requests for one cache key; the store is available, the primary
\* generator may fail, keys expire
SpecRace == InitAvailable /\ [][NextRace]_vars

\* the steps of NextPrimary, and health checks between them with no
\* credential, an allowed one and an unknown one
NextHealth ==
    \/ NextPrimary
    \/ \E c \in {NoneStr, KeyA, KeyC}, p \in ProbeOutcomes : HealthCheck(c, p)

\* the pipeline with store and primary available, and health checks
SpecHealth == InitAvailable /\ [][NextHealth]_vars

\* the retry decorator alone, under every accepted MAX_RETRIES setting
NextBackoff ==
    \/ \E r \in 0..max_retries_le : StartWith(r)
    \/ \E cls \in RetriedClasses : RetrySleep(cls)

SpecBackoff == Init /\ [][NextBackoff]_vars

\* the request of ReqA sent with the other allowed credential
ReqB == [ReqA EXCEPT !.api_key = KeyB]

\* one client sends with either credential, the other with the second only
ClientRequests == [t \in Tasks |-> IF t = "t1" THEN {ReqA, ReqB} ELSE {ReqB}]

\* the steps of NextPrimary for requests of two credentials, while keys expire
NextIsolation ==
    \/ \E t \in Tasks : \E r \in ClientRequests[t] : Request(t, r, "ok")
    \/ \E t \in Tasks : RlSetex(t, "ok")
    \/ \E t \in Tasks : RlIncr(t, "ok")
    \/ \E t \in Tasks : CacheGet(t, "ok")
    \/ \E t \in Tasks : LlmSuccess(t, [kind |-> "ok", output_text |-> LongText,
                                        usage |-> SomeUsage])
    \/ \E t \in Tasks : CacheSet(t, "ok")
    \/ Tick

\* concurrent requests of two credentials, store and primary generator available
SpecIsolation == InitAvailable /\ [][NextIsolation]_vars

\* the one client of SpecBoundary
BoundaryTasks == {"t1"}

\* HTTP requests of one client at the boundary and the pipeline behind it,
\* store and primary generator available
NextBoundary ==
    \/ \E t \in BoundaryTasks, raw \in RawRequests :
         \E sec \in SecurityOutcomes(raw.credential) : Arrive(t, raw, sec)
    \/ \E t \in BoundaryTasks : RlSetex(t, "ok")
    \/ \E t \in BoundaryTasks : RlIncr(t, "ok")
    \/ \E t \in BoundaryTasks : CacheGet(t, "ok")
    \/ \E t \in BoundaryTasks :
         LlmSuccess(t, [kind |-> "ok", output_text |-> LongText, usage |-> SomeUsage])
    \/ \E t \in BoundaryTasks : CacheSet(t, "ok")

SpecBoundary == InitAvailable /\ [][NextBoundary]_vars

\* the texts and language tags the extractive fallback is called with on its
\* own: "", " ", "...", "a", "a. b.", "a.b", "a! b. c." and "a. b. c. d."; a
\* tag of lang_map, one in capitals, one that lang_map does not know and the
\* empty tag
FallbackTexts ==
    {<<>>, <<" ">>, <<".", ".", ".">>, TextB, TextA,
     <<"a", ".", "b">>,
     <<"a", "!", " ", "b", ".", " ", "c", ".">>,
     <<"a", ".", " ", "b", ".", " ", "c", ".", " ", "d", ".">>}
    \cup MarkTexts
FallbackLangs == {LangEn, <<"E", "N">>, <<"x", "x">>, <<>>}

\* extractive_fallback.generate_summary(text, lang) called on its own; the
\* function keeps no state between calls
FallbackCall(text, lang, rank) ==
    /\ fb_call' = [text |-> text, lang |-> lang,
                   max_sentences |-> calculate_sentence_count(text), rank |-> rank]
    /\ fb_result' = fallback_generate_summary(text, lang, rank)
    /\ UNCHANGED <<pipevars, genvars, arrival, health, backoff>>

NextFallback ==
    \E text \in FallbackTexts, lang \in FallbackLangs :
        \E rank \in TextRank(get_language_code(lang), text,
                              calculate_sentence_count(text)) :
            FallbackCall(text, lang, rank)

\* calls of the extractive fallback, every text, tag and TextRank outcome
SpecFallback == Init /\ [][NextFallback]_vars

\* a generate_summary invocation on its own
NextGenerate == \E o \in RemoteOutcomes, lib \in Library : GenAttempt(o, lib)

\* one generate_summary invocation, every remote outcome at every attempt
SpecGenerate == Init /\ [][NextGenerate]_vars

\* an available store and check_rate_limit calls that run one after another
SpecSeq == InitAvailable /\ [][NextSeq]_vars

\* concurrent requests, a store that may fail, a keyspace with earlier content
SpecStored == InitStored /\ [][Next]_vars

----------------------------------------------------------------------------
(* Properties of the pipeline *)

NonEmpty(summary) == summary # NoneStr /\ Len(summary) > 0

\* C1: whatever exception generate_summary ends with, the request is answered
\* 200 with fallback_used true, cached false and a non-empty summary, and
\* set_cached_summary is never called for it.
C1_FallbackOnFailure ==
    \A t \in Tasks :
        llm_error[t] # "none" =>
            /\ pc[t] = "idle"
            /\ response[t].status = 200
            /\ response[t].fallback_used
            /\ ~response[t].cached
            /\ NonEmpty(response[t].summary)
            /\ response[t].model \in {"TextRank-extractive", "fallback-simple"}
            /\ set_calls[t] = <<>>
            /\ "cache_set" \notin {trace[t][i] : i \in 1..Len(trace[t])}

\* a request whose generate_summary timed out was answered by the fallback
C1_Witness ==
    \E t \in Tasks :
        /\ llm_error[t] = "APITimeoutError"
        /\ response[t].status = 200
        /\ response[t].fallback_used
        /\ trace[t] = <<"admit", "cache_get", "generate", "fallback">>

\* C2: a request for which check_rate_limit returned False ends with 429 and
\* nothing but the admission step ran for it: no cache lookup, no remote call,
\* no fallback, no cache write.
C2_RejectedEndsWith429 ==
    \A t \in Tasks :
        admit[t].result = "False" =>
            /\ pc[t] = "idle"
            /\ response[t] = HttpError(429)
            /\ trace[t] = <<"admit">>
            /\ cached_result[t] = NoneDict
            /\ attempt[t] = 0
            /\ result[t] = NoneDict
            /\ ~fallback_used[t]
            /\ set_calls[t] = <<>>

\* a request was rejected at the ceiling
C2_Witness ==
    \E t \in Tasks :
        /\ admit[t].result = "False"
        /\ response[t].status = 429
        /\ window_calls[req[t].api_key] > rate_limit_requests

\* C3: the step that finds a cache entry answers with cached true and with the
\* summary, usage, model and fallback_used of the stored entry, and ends the
\* request: no remote call, no fallback and no cache write happen for it.
C3_HitAnswersStoredEntry ==
    [][\A t \in Tasks :
         (pc[t] = "cache_get" /\ pc'[t] # "cache_get" /\ Truthy(cached_result'[t])) =>
            LET e == JsonLoads(store[CacheKeyOf(req[t])].val)
            IN  /\ response'[t] = SummarizeResponse(e.summary, e.usage, e.model,
                                                    response'[t].latency_at,
                                                    e.fallback_used, TRUE)
                /\ pc'[t] = "idle"
                /\ trace'[t] = <<"admit", "cache_get">>
                /\ attempt'[t] = 0
                /\ result'[t] = NoneDict
                /\ set_calls'[t] = <<>>
                /\ store' = store]_vars

\* a request was answered from the cache
C3_Witness ==
    \E t \in Tasks :
        /\ Truthy(cached_result[t])
        /\ response[t].cached
        /\ response[t].summary = cached_result[t].summary
        /\ pc[t] = "idle"

\* C4: after generate_summary returned, the request ends with exactly one
\* set_cached_summary call, under the key of the request, with the summary,
\* usage and model of the primary result and fallback_used false, and the
\* answer has fallback_used false and cached false.
C4_PrimaryResultCachedOnce ==
    \A t \in Tasks :
        (result[t] # NoneDict /\ ~fallback_used[t]) =>
            /\ result[t].model = openai_model
            /\ pc[t] \in {"cache_set", "idle"}
            /\ pc[t] = "cache_set" => set_calls[t] = <<>>
            /\ pc[t] = "idle" =>
                /\ set_calls[t] =
                     <<[key |-> generate_cache_key(req[t].text, req[t].lang,
                                                   req[t].max_tokens, req[t].tone),
                        data |-> [summary |-> result[t].summary,
                                  usage |-> result[t].usage,
                                  model |-> result[t].model,
                                  fallback_used |-> FALSE]]>>
                /\ response[t].status = 200
                /\ response[t].summary = result[t].summary
                /\ ~response[t].fallback_used
                /\ ~response[t].cached

\* a primary result was cached and answered
C4_Witness ==
    \E t \in Tasks :
        /\ result[t] # NoneDict
        /\ ~fallback_used[t]
        /\ Len(set_calls[t]) = 1
        /\ response[t].status = 200

\* C5: every request ends with 200 or with the 429 rejection, whatever the
\* stores and the remote calls do and whatever the summary key already holds;
\* no request ends with another status such as 500.
C5_OnlyOkOrQuotaExceeded ==
    \A t \in Tasks : response[t].status \in {0, 200, 429}

\* C6: every request that was admitted and has ended was answered 200 with a
\* non-empty summary, whether the cache, the primary generation, the
\* extractive fallback or the simple fallback served it.
C6_AdmittedGetNonEmptySummary ==
    \A t \in Tasks :
        /\ (pc[t] = "idle" /\ Len(trace[t]) > 1) => response[t].status = 200
        /\ response[t].status = 200 => NonEmpty(response[t].summary)

\* a request was answered by the simple fallback, the last resort
C6_Witness ==
    \E t \in Tasks :
        /\ response[t].status = 200
        /\ response[t].model = "fallback-simple"
        /\ NonEmpty(response[t].summary)

\* the step in which the check_rate_limit call of task t returns, store available
AdmitReturns(t) ==
    \/ \E r \in Requests : Request(t, r, "ok") /\ pc'[t] \notin {"rl_setex", "rl_incr"}
    \/ RlSetex(t, "ok")
    \/ RlIncr(t, "ok")

\* C7: with an available store and check_rate_limit calls of a credential that
\* run one after another, a call returns True exactly when it is among the
\* first rate_limit_requests calls on the credential's counter; the first call
\* after the counter expired is the first of a new window and returns True.
C7_SequentialCeiling ==
    [][\A t \in Tasks :
         AdmitReturns(t) =>
            /\ admit'[t].result \in {"True", "False"}
            /\ admit'[t].result = "True"
                  <=> window_calls'[req'[t].api_key] <= rate_limit_requests
            /\ admitted'[req'[t].api_key] <= rate_limit_requests
            /\ admit'[t].saw_none => window_calls'[req'[t].api_key] = 1]_vars

\* the call after the ceiling was reached has been rejected, and a call after
\* the counter expired at the ceiling has been admitted
C7_Witness ==
    \E t \in Tasks :
        /\ admit[t].result = "False"
        /\ window_calls[req[t].api_key] = rate_limit_requests + 1
        /\ admitted[req[t].api_key] = rate_limit_requests
        /\ RedisGet(store, rate_key(req[t].api_key)) = Digits(rate_limit_requests)

\* C8: however concurrent check_rate_limit calls of one credential interleave,
\* with an available store, at most rate_limit_requests of them return True
\* during the lifetime of one counter.
C8_NeverAboveCeiling ==
    \A c \in Credentials : admitted[c] <= rate_limit_requests

\* C9: a check_rate_limit call that finds no counter returns True and leaves a
\* counter of 1 that expires in 60 seconds; so does the first call after a
\* counter at the ceiling expired.
C9_RolloverStartsAtOne ==
    [][\A t \in Tasks :
         (pc[t] = "rl_setex" /\ pc'[t] # "rl_setex") =>
            /\ admit[t].saw_none
            /\ admit'[t].result = "True"
            /\ rate_key(req[t].api_key) \in DOMAIN store'
            /\ store'[rate_key(req[t].api_key)] =
                   [val |-> Digits(1), ttl |-> RateWindowSeconds]]_vars

\* the first call after a counter at the ceiling expired has returned
C9_Witness ==
    \E t \in Tasks :
        /\ admit[t].result = "True"
        /\ admit[t].after_ceiling
        /\ store[rate_key(req[t].api_key)] = [val |-> Digits(1), ttl |-> RateWindowSeconds]

\* C10: a check_rate_limit call that finds the store off, that fails at the
\* ping, or whose GET, SETEX or INCR fails, returns True, and the request goes
\* on to the cache lookup, whatever the counter holds.
C10_FailOpen ==
    \A t \in Tasks :
        admit[t].fail # "none" =>
            /\ admit[t].result = "True"
            /\ pc[t] = "cache_get"
            /\ response[t].status # 429

\* a call failed open at the ping while the counter was at the ceiling
C10_Witness ==
    \E t \in Tasks :
        /\ admit[t].fail = "ping"
        /\ admit[t].result = "True"
        /\ RedisGet(store, rate_key(req[t].api_key)) = Digits(rate_limit_requests)

\* the keys of the summary cache that the keyspace holds
SummaryKeys == {k \in DOMAIN store : k[1] = "summary:"}

\* C11: with the cache switched off or unreachable, get_cached_summary returns
\* None and set_cached_summary returns False and writes nothing, and every
\* admitted request still ends 200 with the primary result, or with the
\* fallback result when the primary failed.
C11_CacheFailsOpen ==
    /\ SummaryKeys = {}
    /\ \A o \in StoreOutcomes :
          CacheDown(o) =>
            /\ get_cached_summary(store, CacheKeyOf(ReqA), o) = NoneDict
            /\ set_cached_summary(store, CacheKeyOf(ReqA),
                                  [summary |-> LongText, usage |-> SomeUsage,
                                   model |-> openai_model, fallback_used |-> FALSE],
                                  o) = [returned |-> FALSE, store |-> store]
    /\ \A t \in Tasks :
        /\ cached_result[t] = NoneDict
        /\ (pc[t] = "idle" /\ Len(trace[t]) > 1) =>
              /\ response[t].status = 200
              /\ ~response[t].cached
              /\ response[t].summary = result[t].summary
              /\ response[t].model = result[t].model
              /\ response[t].fallback_used = (llm_error[t] # "none")

\* with the cache unreachable, one request was answered by the primary after a
\* set_cached_summary call and another by the fallback
C11_Witness ==
    \E t, u \in Tasks :
        /\ enable_redis
        /\ pc[t] = "idle" /\ Len(set_calls[t]) = 1 /\ response[t].model = openai_model
        /\ pc[u] = "idle" /\ response[u].fallback_used /\ response[u].status = 200

\* C12: once set_cached_summary has stored an entry under a key, a
\* get_cached_summary of that key made any time before cache_ttl_seconds have
\* passed, with no other write to the key, returns a dict with the summary,
\* usage, model and fallback_used that were written.
C12_CacheRoundTrip ==
    [][\A t \in Tasks :
         (pc[t] = "cache_set" /\ pc'[t] = "idle") =>
            LET c == set_calls'[t][Len(set_calls'[t])]
            IN  /\ c.key \in DOMAIN store'
                /\ \A d \in 0..(cache_ttl_seconds - 1) :
                      get_cached_summary(RedisElapse(store', d), c.key, "ok") = c.data]_vars

\* an entry was written, time has passed, and a later request read it back
C12_Witness ==
    \E t, u \in Tasks :
        /\ t # u
        /\ Len(set_calls[t]) = 1
        /\ set_calls[t][1].key \in DOMAIN store
        /\ store[set_calls[t][1].key].ttl < cache_ttl_seconds
        /\ cached_result[u] = set_calls[t][1].data

\* the last request of task t was served by the primary generator
PrimaryDone(t) ==
    /\ pc[t] = "idle"
    /\ response[t].status = 200
    /\ ~response[t].cached
    /\ ~response[t].fallback_used

\* the step in which the request of task u is rejected, or looks up the cache
RejectedOrLooksUp(u) ==
    \/ pc[u] = "cache_get" /\ pc'[u] # "cache_get"
    \/ pc[u] = "idle" /\ pc'[u] = "idle" /\ \E r \in Requests : Request(u, r, "ok")

\* C13 as stated: once a request was served by the primary generator, every
\* later request with the same text, language, max_tokens and tone is answered
\* cached=true with the summary of that first response, without a remote call.
C13_LaterRequestsRepeatFirst ==
    [][\A t, u \in Tasks :
         (t # u /\ PrimaryDone(t) /\ RejectedOrLooksUp(u)
               /\ CacheKeyOf(req'[u]) = CacheKeyOf(req[t])) =>
            /\ pc'[u] = "idle"
            /\ response'[u].status = 200
            /\ response'[u].cached
            /\ response'[u].summary = response[t].summary
            /\ attempt'[u] = 0]_vars

\* C13, amended: a later request that the rate limiter admits and that looks
\* the key up while the entry is stored is answered cached=true without a
\* remote call, with the summary of the stored entry: the one the most recent
\* primary result was written with.
C13_LaterAdmittedRequestsHit ==
    [][\A u \in Tasks :
         (pc[u] = "cache_get" /\ pc'[u] # "cache_get"
               /\ CacheKeyOf(req[u]) \in DOMAIN store) =>
            /\ pc'[u] = "idle"
            /\ response'[u].status = 200
            /\ response'[u].cached
            /\ response'[u].summary = JsonLoads(store[CacheKeyOf(req[u])].val).summary
            /\ response'[u].summary \in {LongText, OtherText}
            /\ attempt'[u] = 0
            /\ trace'[u] = <<"admit", "cache_get">>]_vars

\* a request served by the primary was followed by one answered from the cache
\* with the same summary
C13_Witness ==
    \E t, u \in Tasks :
        /\ PrimaryDone(t)
        /\ pc[u] = "idle" /\ response[u].cached
        /\ response[u].summary = response[t].summary
        /\ attempt[u] = 0

\* the request fields that make the cache key
KeyTuple(r) == <<r.text, r.lang, r.max_tokens, r.tone>>

\* C14: two requests get the same cache key exactly when they are equal in
\* text, lang, max_tokens and tone (the digest taken as injective), and the
\* strings that are hashed differ whenever the requests differ in a field.
C14_KeyInjective ==
    \A t, u \in Tasks :
        (req[t] # NoReq /\ req[u] # NoReq) =>
            /\ (CacheKeyOf(req[t]) = CacheKeyOf(req[u]))
                   <=> (KeyTuple(req[t]) = KeyTuple(req[u]))
            /\ (KeyTuple(req[t]) # KeyTuple(req[u])) =>
                   cache_data(req[t].text, req[t].lang, req[t].max_tokens, req[t].tone)
                     # cache_data(req[u].text, req[u].lang, req[u].max_tokens,
                                  req[u].tone)

\* two requests that differ only in tone have both stored a summary, under two
\* keys
C14_Witness ==
    /\ req["t1"] # NoReq /\ req["t2"] # NoReq
    /\ req["t1"].tone # req["t2"].tone
    /\ req["t1"].text = TextBar /\ req["t2"].text = TextBar
    /\ req["t1"].lang = req["t2"].lang
    /\ req["t1"].max_tokens = req["t2"].max_tokens
    /\ CacheKeyOf(req["t1"]) \in DOMAIN store
    /\ CacheKeyOf(req["t2"]) \in DOMAIN store
    /\ CacheKeyOf(req["t1"]) # CacheKeyOf(req["t2"])

\* the failure classes of the contract that the retry policy names
RetriedBySpec == {"RateLimitError", "APIError"}

\* C15: when the first remote call fails with a Timeout or its answer is
\* InvalidResponse, generate_summary has made exactly one remote call, has not
\* waited, and has raised.
C15_TimeoutInvalidNotRetried ==
    (Len(calls) >= 1 /\ calls[1].failure \in {"APITimeoutError", "InvalidResponse"}) =>
        /\ Len(calls) = 1
        /\ gen.sleeps = 0
        /\ gen.status = "raised"

\* C16: one invocation makes at most max_retries remote calls, every call but
\* the last failed as RateLimited or RemoteAPIError, and after max_retries
\* calls the invocation has returned or raised.
C16_BoundedRetriesOfListedClasses ==
    /\ Len(calls) <= max_retries
    /\ \A i \in 1..(Len(calls) - 1) : calls[i].failure \in RetriedBySpec
    /\ Len(calls) = max_retries => gen.status \in {"returned", "raised"}

\* the exception class that stands for a failure of the contract: the code has
\* no class of its own for InvalidResponse and raises APIError for it
RaisedAs(f) == IF f = "InvalidResponse" THEN "APIError" ELSE f

\* C17: the exception generate_summary raises has the class of the failure of
\* its last remote call.
C17_LastFailureUnchanged ==
    gen.status = "raised" => gen.raised = RaisedAs(calls[Len(calls)].failure)

\* The endpoint's side of C18: every primary result the endpoint holds, and
\* every entry it hands to set_cached_summary, has a summary of at least 10
\* characters after stripping.
PrimaryResultsAreValid ==
    \A t \in Tasks :
        /\ (result[t] # NoneDict /\ ~fallback_used[t]) =>
               Len(Strip(result[t].summary)) >= MinSummaryLen
        /\ \A i \in 1..Len(set_calls[t]) :
               Len(Strip(set_calls[t][i].data.summary)) >= MinSummaryLen

\* C18: when generate_summary has returned, the summary it returned is the
\* text of its last remote call and has at least 10 characters after
\* stripping; an invocation whose last remote call answered None, an empty
\* text or a shorter text has not returned.
C18_NoDegenerateSuccess ==
    /\ gen.status = "returned" =>
          /\ gen.value # NoneDict
          /\ gen.value.summary = calls[Len(calls)].output_text
          /\ gen.value.summary # NoneStr
          /\ Len(Strip(gen.value.summary)) >= MinSummaryLen
    /\ (Len(calls) >= 1 /\ calls[Len(calls)].failure = "InvalidResponse") =>
          /\ gen.status # "returned"
          /\ gen.value = NoneDict

\* a remote call answered a text of fewer than 10 characters and
\* generate_summary raised
C18_Witness ==
    /\ Len(calls) >= 1
    /\ calls[Len(calls)].output_text = ShortText
    /\ gen.status = "raised"

\* C19: every call of the extractive fallback returns a dict, whatever the
\* text, the language tag and the TextRank step did, and its summary is not
\* empty (for the empty text too).
C19_FallbackAlwaysReturns ==
    fb_call # NoFallbackCall =>
        /\ fb_result # NoFallbackResult
        /\ fb_result.summary # NoneStr
        /\ Len(fb_result.summary) > 0
        /\ fb_result.model \in {"TextRank-extractive", "fallback-simple"}
        /\ fb_result.usage = ZeroUsage

\* the fallback was called with the empty text and an unknown language tag,
\* the TextRank step raised, and a dict came back
C19_Witness ==
    /\ fb_call.text = <<>>
    /\ fb_call.lang = <<"x", "x">>
    /\ fb_call.rank.raised
    /\ fb_result.summary = <<".">>

\* the TextRank step gave nothing usable: it raised, or its sentences join to
\* a blank text
NoUsableRanking(rank) == rank.raised \/ Strip(Join(rank.sentences, <<" ">>)) = <<>>

\* C20: whenever the TextRank step raised or gave no usable output, the
\* summary is the first 3 pieces of the text split on '.', joined, and the
\* model is "fallback-simple".
C20_DoubleFallbackMarked ==
    (fb_call # NoFallbackCall /\ NoUsableRanking(fb_call.rank)) =>
        /\ fb_result.summary =
              Join(Take(Split(fb_call.text, "."), 3), <<".", " ">>) \o <<".">>
        /\ fb_result.model = "fallback-simple"
        /\ fb_result.model # "TextRank-extractive"

\* the sentence-terminal marks of a text
Marks(text) == Count(text, ".") + Count(text, "!") + Count(text, "?")

Arrives(t) ==
    /\ pc[t] = "idle"
    /\ arrival'[t].sent
    /\ <<arrival'[t], response'[t], pc'[t], trace'[t]>>
          # <<arrival[t], response[t], pc[t], trace[t]>>

\* a step that leaves the pipeline as it was: no store command, no pipeline
\* step, no generate_summary or fallback call
PipelineUntouched ==
    /\ store' = store
    /\ pc' = pc
    /\ req' = req
    /\ trace' = trace
    /\ attempt' = attempt
    /\ result' = result
    /\ set_calls' = set_calls
    /\ admitted' = admitted
    /\ window_calls' = window_calls

\* C22: a request whose bearer credential is not in allowed_api_keys (or that
\* has none) is answered by the boundary, with 401 when it has a credential,
\* and the step touches neither the store nor the pipeline; every request the
\* pipeline serves and every rate-limit key in the store has an allowed
\* credential.
C22_UnknownCredentialStopsAtBoundary ==
    /\ [](\A t \in Tasks : req[t] # NoReq => req[t].api_key \in allowed_api_keys)
    /\ [](\A k \in DOMAIN store :
             k[1] = "rate_limit:" => k \in {rate_key(c) : c \in allowed_api_keys})
    /\ [][\A t \in Tasks :
            (Arrives(t) /\ arrival'[t].credential \notin allowed_api_keys) =>
                /\ response'[t].status \in NotAuthenticated
                /\ arrival'[t].credential # NoneStr => response'[t].status = 401
                /\ PipelineUntouched]_vars

\* after requests that were served, a request with an unknown credential was
\* answered 401 while the counter of the allowed credential is in the store
C22_Witness ==
    \E t \in Tasks :
        /\ arrival[t].sent
        /\ arrival[t].credential = KeyC
        /\ response[t].status = 401
        /\ req[t] # NoReq
        /\ rate_key(KeyA) \in DOMAIN store

\* the text of a body is empty, blank or longer than max_length, or its
\* max_tokens is outside 10..1000
BadTextOrTokens(raw) ==
    \/ raw.text = <<>>
    \/ Strip(raw.text) = <<>>
    \/ Len(raw.text) > max_length
    \/ raw.max_tokens < 10
    \/ raw.max_tokens > 1000

\* a tag is given and is not, as written, one of the tags
OutsideAsWritten(tag, tags) == tag # NoneStr /\ tag \notin tags

\* a tag is given and is not one of the tags in any capitalisation
OutsideInAnyCase(tag, tags) == tag # NoneStr /\ Lower(tag) \notin tags

\* the boundary answers the request of task t with 422 and nothing else
\* happens
Rejected422(t) ==
    /\ response'[t].status = 422
    /\ PipelineUntouched

C24_HealthReflectsProbe ==
    /\ [](health # NoHealth =>
            /\ health.status_code = 200
            /\ health.status \in {"ok", "degraded"}
            /\ health.status = "ok" <=> (~health.probe.raised /\ health.probe.value)
            /\ health.status = "degraded" <=>
                  (health.probe.raised \/ ~health.probe.value))
    /\ [][health' # health => (PipelineUntouched /\ response' = response)]_vars

\* a health check without credential was answered "degraded" after a probe
\* that raised, while the store holds a counter and a cached summary
C24_Witness ==
    /\ health.credential = NoneStr
    /\ health.probe.raised
    /\ health.status = "degraded"
    /\ health.status_code = 200
    /\ rate_key(KeyA) \in DOMAIN store
    /\ CacheKeyOf(ReqA) \in DOMAIN store

\* the complete primary results: every dict the endpoint can build from a
\* generate_summary call that returned
CompletePrimaryResults ==
    {CacheData(g.value, FALSE) :
        g \in {h \in {generate_once(o, lib) : o \in RemoteOutcomes \cup AvailableOutcomes,
                                               lib \in Library} : h.ok}}

\* task t is at the point of writing the cache
Writes(t) == pc[t] = "cache_set" /\ pc'[t] = "idle"

\* task t computed the cache key in its current request
ComputedKey(t) == \E i \in 1..Len(trace[t]) : trace[t][i] = "cache_get"

\* the key all requests of SpecRace compute
RaceKey == CacheKeyOf(ReqA)

\* C25: with concurrent requests for one cache key, the entry under the key is
\* absent or a complete primary result, and when its value changes it is the
\* result of the request that writes at that step (last write wins); every
\* request that computed the key and is over ended 200; no request invokes
\* generate more than once.
C25_SameKeyRaceHarmless ==
    /\ [](RaceKey \in DOMAIN store =>
            /\ ~JsonDecodeError(store[RaceKey].val)
            /\ JsonLoads(store[RaceKey].val) \in CompletePrimaryResults)
    /\ [][(/\ RaceKey \in DOMAIN store'
           /\ (RaceKey \notin DOMAIN store \/ store'[RaceKey].val # store[RaceKey].val))
          => \E t \in Tasks :
                /\ Writes(t)
                /\ ~fallback_used[t]
                /\ JsonLoads(store'[RaceKey].val) = CacheData(result[t], FALSE)]_vars
    /\ [][\A t \in Tasks : Writes(t) =>
            /\ RaceKey \in DOMAIN store'
            /\ JsonLoads(store'[RaceKey].val) = CacheData(result[t], FALSE)]_vars
    /\ [](\A t \in Tasks :
            /\ (pc[t] = "idle" /\ ComputedKey(t)) => response[t].status = 200
            /\ Count(trace[t], "generate") <= 1)

\* both requests missed, both invoked generate and got different summaries,
\* both wrote the key and both were answered 200 with their own summary; the
\* entry is the one of the second writer
C25_Witness ==
    LET k == CacheKeyOf(ReqA)
    IN
    /\ \A t \in Tasks :
          /\ pc[t] = "idle"
          /\ Len(set_calls[t]) = 1
          /\ set_calls[t][1].key = k
          /\ response[t].status = 200
          /\ ~response[t].cached
          /\ Count(trace[t], "generate") = 1
    /\ response["t1"].summary # response["t2"].summary
    /\ k \in DOMAIN store
    /\ JsonLoads(store[k].val).summary = response["t2"].summary

\* C26: with the default configuration a generate_summary invocation never
\* occupies the overall request timeout or more.
C26_GenerateInsideRequestTimeout == GenerateElapsedMs < request_timeout_ms

\* C27: the latency of every answered request was taken after all the
\* pipeline steps of that request had run, the cache write included.
C27_LatencyAfterLastStep ==
    \A t \in Tasks :
        (pc[t] = "idle" /\ response[t].status = 200)
            => response[t].latency_at = Len(trace[t])

\* the counter of credential c is at or above the ceiling
AtCeiling(c) ==
    /\ rate_key(c) \in DOMAIN store
    /\ IsDigits(store[rate_key(c)].val)
    /\ ParseInt(store[rate_key(c)].val) >= rate_limit_requests

\* C28: a check_rate_limit call that finds the counter at or above the ceiling
\* returns False at once: the keyspace, the counter's value and remaining
\* expiry included, is the same after the call, no INCR is pending, and the
\* request is answered 429.
C28_RejectedCallLeavesStore ==
    [][\A t \in Tasks, r \in Requests :
         (Request(t, r, "ok") /\ AtCeiling(r.api_key)) =>
            /\ admit'[t].result = "False"
            /\ store' = store
            /\ pc'[t] = "idle"
            /\ response'[t].status = 429]_vars

\* a call was rejected on a counter at the ceiling with half of its window
\* left, and the counter still is as it was
C28_Witness ==
    \E t \in Tasks :
        /\ admit[t].result = "False"
        /\ pc[t] = "idle"
        /\ response[t].status = 429
        /\ AtCeiling(req[t].api_key)
        /\ store[rate_key(req[t].api_key)].ttl = RateWindowSeconds - TickSeconds

\* C29: with an available store, whenever the counter of a credential exists
\* its value is the number of check_rate_limit calls of that credential that
\* returned True since the counter was created.
C29_CounterCountsAdmitted ==
    \A c \in Credentials :
        rate_key(c) \in DOMAIN store
            => ParseInt(store[rate_key(c)].val) = admitted[c]

\* C30: every rate-limit counter in the store carries an expiry of at most one
\* window length.
C30_CountersExpire ==
    \A c \in Credentials :
        rate_key(c) \in DOMAIN store
            => /\ store[rate_key(c)].ttl # NoExpiry
               /\ store[rate_key(c)].ttl <= RateWindowSeconds

\* the two complete orders of pipeline steps
PrimaryPath == <<"admit", "cache_get", "generate", "cache_set">>
FallbackPath == <<"admit", "cache_get", "generate", "fallback">>

\* s is an initial part of p
IsPrefix(s, p) == Len(s) <= Len(p) /\ SubSeq(p, 1, Len(s)) = s

\* step x is among the steps s
HasStep(s, x) == \E i \in 1..Len(s) : s[i] = x

\* the steps of the request of task t so far are in order: admission, cache
\* probe, primary generation, then cache population or fallback, never both
StepsInOrder(t) ==
    /\ IsPrefix(trace[t], PrimaryPath) \/ IsPrefix(trace[t], FallbackPath)
    /\ attempt[t] > 0 => (Len(trace[t]) >= 3 /\ trace[t][2] = "cache_get"
                                            /\ trace[t][3] = "generate")
    /\ HasStep(trace[t], "fallback") => (set_calls[t] = <<>> /\ fallback_used[t])
    /\ HasStep(trace[t], "cache_set") => (Len(set_calls[t]) = 1 /\ ~fallback_used[t])

\* C31: within one request the steps run in the order admission, cache probe,
\* primary generation, then exactly one of cache population or fallback; no
\* step is repeated and none follows a later one; the cache is read before
\* any remote call, and no request both writes the cache and runs the fallback.
C31_StepsStrictlyOrdered ==
    /\ [](\A t \in Tasks : StepsInOrder(t))
    /\ [][\A t \in Tasks :
            trace'[t] # trace[t] =>
                \/ IsPrefix(trace[t], trace'[t])
                \/ pc[t] = "idle" /\ trace'[t] = <<"admit">>]_vars

\* one request went all the way to the cache write and another all the way
\* through the fallback
C31_Witness ==
    /\ trace["t1"] = PrimaryPath
    /\ trace["t2"] = FallbackPath
    /\ \A t \in Tasks : pc[t] = "idle" /\ response[t].status = 200

\* C32: every cache write leaves the entry with an expiry of exactly
\* cache_ttl_seconds, also when it replaces an entry that had less time left;
\* a lookup made once that time has passed without another write misses; every
\* stored entry has an expiry of at most cache_ttl_seconds; and an entry leaves
\* the store only by expiring, never by a step of the pipeline.
C32_EntriesExpireAfterTtl ==
    /\ [](RaceKey \in DOMAIN store =>
            store[RaceKey].ttl \in 1..cache_ttl_seconds)
    /\ [][\A t \in Tasks :
            Writes(t) =>
                /\ RaceKey \in DOMAIN store'
                /\ store'[RaceKey].ttl = cache_ttl_seconds
                /\ get_cached_summary(RedisElapse(store', cache_ttl_seconds),
                                      RaceKey, "ok") = NoneDict
                /\ get_cached_summary(RedisElapse(store', cache_ttl_seconds - 1),
                                      RaceKey, "ok") # NoneDict]_vars
    /\ [][(RaceKey \in DOMAIN store /\ RaceKey \notin DOMAIN store') =>
            /\ store' = RedisElapse(store, TickSeconds)
            /\ store[RaceKey].ttl <= TickSeconds
            /\ pc' = pc]_vars

\* both requests wrote the key, the last write after time had passed: the
\* entry is the second writer's and has its full life, while the rate-limit
\* counter created before it has run half down
C32_Witness ==
    /\ \A t \in Tasks : Len(set_calls[t]) = 1 /\ pc[t] = "idle"
    /\ RaceKey \in DOMAIN store
    /\ store[RaceKey].ttl = cache_ttl_seconds
    /\ JsonLoads(store[RaceKey].val).summary = response["t2"].summary
    /\ response["t1"].summary # response["t2"].summary
    /\ rate_key(KeyA) \in DOMAIN store
    /\ store[rate_key(KeyA)].ttl = RateWindowSeconds - TickSeconds

\* the delay in milliseconds that is to precede attempt n + 1:
\* min(4, max(1, 2^(n-1))) seconds
StatedDelayMs(n) == Min(4000, Max(1000, 1000 * 2 ^ (n - 1)))

\* C33: the wait after attempt n is min(4, max(1, 2^(n-1))) seconds, lies
\* between 1 s and 4 s, and is never shorter than the wait before it.
C33_BackoffDelays ==
    \A i \in 1..Len(backoff.slept) :
        /\ backoff.slept[i].attempt = i
        /\ backoff.slept[i].ms = StatedDelayMs(i)
        /\ backoff.slept[i].ms >= 1000
        /\ backoff.slept[i].ms <= 4000
        /\ i > 1 => backoff.slept[i].ms >= backoff.slept[i - 1].ms

\* with MAX_RETRIES = 5 the decorator has waited 1, 2, 4 and 4 seconds
C33_Witness ==
    /\ backoff.max_retries = 5
    /\ Len(backoff.slept) = 4
    /\ [i \in 1..4 |-> backoff.slept[i].ms] = <<1000, 2000, 4000, 4000>>

\* credentials that look like keys of the cache, and plain ones
KeyLikeCredentials ==
    Credentials \cup {KeyC, <<>>, SummaryPrefix, RateLimitPrefix}
    \cup {KeyString(CacheKeyOf(r)) : r \in KeyRequests}

\* the key k is not as it was after the step
KeyChanged(k) ==
    \/ (k \in DOMAIN store) # (k \in DOMAIN store')
    \/ k \in DOMAIN store /\ k \in DOMAIN store' /\ store'[k] # store[k]

\* the step is a store command of check_rate_limit on the counter k
RateCommandOn(k) ==
    \E t \in Tasks : /\ pc[t] \in {"rl_setex", "rl_incr"}
                      /\ pc'[t] # pc[t]
                      /\ k = rate_key(req[t].api_key)

\* the step is the cache write of a request whose key is k
CacheWriteOn(k) == \E t \in Tasks : Writes(t) /\ k = CacheKeyOf(req[t])

\* as strings, cache keys and rate-limit keys start with their own prefix and
\* no cache key equals a rate-limit key
PrefixesApart ==
    \A r \in KeyRequests \cup Requests :
        /\ IsPrefix(SummaryPrefix, KeyString(CacheKeyOf(r)))
        /\ ~IsPrefix(RateLimitPrefix, KeyString(CacheKeyOf(r)))
        /\ \A c \in KeyLikeCredentials :
              /\ IsPrefix(RateLimitPrefix, KeyString(rate_key(c)))
              /\ ~IsPrefix(SummaryPrefix, KeyString(rate_key(c)))
              /\ KeyString(CacheKeyOf(r)) # KeyString(rate_key(c))

\* every key of the store is a counter holding a number or a cache entry
\* holding a JSON document
EveryKeyInItsSpace ==
    \A k \in DOMAIN store :
        \/ k \in {rate_key(c) : c \in Credentials} /\ IsDigits(store[k].val)
        \/ k \in {CacheKeyOf(r) : r \in Requests} /\ ~JsonDecodeError(store[k].val)

\* C34: as strings, every cache key starts with "summary:" and every
\* rate-limit key with "rate_limit:", so none of the first equals one of the
\* second, whatever the request and the credential; a counter changes only by a
\* command of check_rate_limit on it or by expiring, a cache entry only by the
\* cache write of a request with that key or by expiring.
C34_KeySpacesDisjoint ==
    /\ [](PrefixesApart /\ EveryKeyInItsSpace)
    /\ [][\A k \in DOMAIN store \cup DOMAIN store' :
            KeyChanged(k) =>
                \/ pc' = pc /\ store' = RedisElapse(store, TickSeconds)
                \/ IsPrefix(RateLimitPrefix, KeyString(k)) /\ RateCommandOn(k)
                \/ IsPrefix(SummaryPrefix, KeyString(k)) /\ CacheWriteOn(k)]_vars

\* the store holds a counter at the ceiling and a cached summary side by side
C34_Witness ==
    /\ rate_key(KeyA) \in DOMAIN store
    /\ store[rate_key(KeyA)].val = Digits(rate_limit_requests)
    /\ RaceKey \in DOMAIN store
    /\ JsonLoads(store[RaceKey].val).summary = LongText
    /\ KeyString(RaceKey) # KeyString(rate_key(KeyA))

\* the model identifiers of the extractive fallback
FallbackModels == {"TextRank-extractive", "fallback-simple"}

\* C35: starting from an empty cache, every set_cached_summary call and every
\* stored entry has fallback_used false and the model of the primary
\* generator, and no answer has cached true together with fallback_used true
\* or with a model identifier of the extractive fallback.
C35_NoFallbackInCache ==
    /\ \A k \in SummaryKeys :
          /\ ~JsonLoads(store[k].val).fallback_used
          /\ JsonLoads(store[k].val).model \notin FallbackModels
    /\ \A t \in Tasks :
          /\ \A i \in 1..Len(set_calls[t]) :
                /\ ~set_calls[t][i].data.fallback_used
                /\ set_calls[t][i].data.model \notin FallbackModels
          /\ response[t].cached =>
                /\ ~response[t].fallback_used
                /\ response[t].model \notin FallbackModels

\* one request was answered by the fallback and wrote nothing; the other was
\* answered from the cache with the entry of an earlier primary result
C35_Witness ==
    /\ pc["t1"] = "idle" /\ pc["t2"] = "idle"
    /\ response["t1"].fallback_used
    /\ response["t1"].model \in FallbackModels
    /\ ~response["t1"].cached
    /\ set_calls["t1"] = <<>>
    /\ response["t2"].cached
    /\ ~response["t2"].fallback_used
    /\ response["t2"].model = openai_model
    /\ SummaryKeys # {}

\* the part of the keyspace s that belongs to the limiter of credential c
OwnView(s, c) == [k \in DOMAIN s \cap {rate_key(c)} |-> s[k]]

\* the counter of credential c in keyspace s: absent, or its value and expiry
CounterOf(s, c) == IF rate_key(c) \in DOMAIN s THEN <<s[rate_key(c)]>> ELSE <<>>

\* the step is one of task t
StepOf(t) == <<pc'[t], admit'[t], trace'[t], req'[t]>> # <<pc[t], admit[t], trace[t], req[t]>>

\* C36: a step of a request of one credential leaves the counter of every
\* other credential as it was, and what a check_rate_limit call of credential
\* c returns and leaves in c's counter is determined by c's counter alone: by
\* the counter it read at its GET and the counter its SETEX or INCR finds. So
\* two runs that differ only in the calls of B give A the same results and
\* the same counter.
C36_PerCredentialIsolation ==
    [][\A t \in Tasks :
         StepOf(t) =>
            LET c == req'[t].api_key
                k == rate_key(c)
            IN  /\ \A b \in Credentials \ {c} :
                      /\ CounterOf(store', b) = CounterOf(store, b)
                      /\ admitted'[b] = admitted[b]
                /\ pc[t] = "idle" =>
                      LET g == RateLimitGet(OwnView(store, c), c, "ok")
                      IN  /\ admit'[t].result = g.result
                          /\ pc'[t] = IF g.next = "return"
                                      THEN (IF g.result = "True" THEN "cache_get" ELSE "idle")
                                      ELSE g.next
                /\ pc[t] = "rl_setex" =>
                      /\ admit'[t].result = "True"
                      /\ CounterOf(store', c)
                            = CounterOf(RedisSetex(OwnView(store, c), k,
                                                   RateWindowSeconds, Digits(1)), c)
                /\ pc[t] = "rl_incr" =>
                      /\ admit'[t].result = "True"
                      /\ CounterOf(store', c) = CounterOf(RedisIncr(OwnView(store, c), k), c)]_vars

\* credential A is at its ceiling and was rejected while credential B, with a
\* fresh counter of its own, was admitted
C36_Witness ==
    /\ req["t1"].api_key = KeyA /\ req["t2"].api_key = KeyB
    /\ admit["t1"].result = "False"
    /\ response["t1"].status = 429
    /\ CounterOf(store, KeyA) # <<>>
    /\ store[rate_key(KeyA)].val = Digits(rate_limit_requests)
    /\ pc["t2"] = "cache_get"
    /\ admit["t2"].result = "True"
    /\ CounterOf(store, KeyB) = <<[val |-> Digits(1), ttl |-> RateWindowSeconds]>>

\* C37: a check_rate_limit command on an existing counter leaves its expiry
\* as it is, and a counter that comes into being expires one window length
\* later; so the window of every counter ends one window length after the
\* request that created it, whatever calls come in between.
C37_WindowFixedAtCreation ==
    [][\A c \in Credentials :
         RateCommandOn(rate_key(c)) =>
            /\ rate_key(c) \in DOMAIN store'
            /\ store'[rate_key(c)].ttl =
                  IF rate_key(c) \in DOMAIN store THEN store[rate_key(c)].ttl
                  ELSE RateWindowSeconds]_vars

\* the request of task t is in the pipeline
InPipeline(t) == pc[t] # "idle"

\* C38: when every awaited call eventually returns or fails, every request in
\* the pipeline eventually leaves it; a request that is over has exactly one
\* outcome, 429, 200 or an error answer; and no invocation of the primary
\* generator makes more than max_retries remote calls.
C38_EveryRequestEnds ==
    /\ [](\A t \in Tasks :
            /\ attempt[t] <= Max(max_retries, 1)
            /\ InPipeline(t) => response[t] = NoResponse
            /\ (~InPipeline(t) /\ trace[t] # <<>>) => response[t].status \in {200, 429, 500})
    /\ \A t \in LiveTasks : InPipeline(t) ~> ~InPipeline(t)

\* a request is over after the last allowed remote call failed and the
\* fallback answered, on a counter that had reached the ceiling
C38_Witness ==
    /\ ~InPipeline("t1")
    /\ attempt["t1"] = max_retries
    /\ trace["t1"] = FallbackPath
    /\ response["t1"].status = 200
    /\ response["t1"].fallback_used
    /\ AtCeiling(req["t1"].api_key)

(* C39 *)

\* the later of two consecutive fallback calls has at least as many marks
MoreMarksNext ==
    /\ fb_call # NoFallbackCall
    /\ fb_call' # NoFallbackCall
    /\ Marks(fb_call.text) <= Marks(fb_call'.text)

\* the step from the band of thirds to the band of quarters: 18..20 marks
\* give 6 sentences, 21..23 marks give 5
AcrossLastBand ==
    /\ Marks(fb_call.text) \in 18..20
    /\ Marks(fb_call'.text) \in 21..23

\* C39 as stated: the target sentence count never decreases when the number
\* of sentence-terminal marks grows: of two calls, the one on the text with
\* at least as many marks gets at least as large a target
C39_TargetMonotone ==
    [][MoreMarksNext => fb_call.max_sentences <= fb_call'.max_sentences]_vars

\* C39 amended: the target never decreases when the number of marks grows,
\* except from 18..20 marks to 21..23 marks, where it drops from 6 to 5
C39_TargetMonotoneInBands ==
    [][MoreMarksNext =>
          IF AcrossLastBand
          THEN fb_call.max_sentences = 6 /\ fb_call'.max_sentences = 5
          ELSE fb_call.max_sentences <= fb_call'.max_sentences]_vars

\* the fallback was called on a text of 21 marks and aimed at 5 sentences
C39_Witness ==
    /\ fb_call # NoFallbackCall
    /\ Marks(fb_call.text) = 21
    /\ fb_call.max_sentences = 5
    /\ fb_result # NoFallbackResult

====
